---------------------------- MODULE Spec2Model ----------------------------
(***************************************************************************)
(* A model of the gocw acquisition stack: the external-memory protocol    *)
(* (Memory), the OpenADC register controller (Adc) with its sticky error  *)
(* field, and the capture loop (NewCapture).                               *)
(*                                                                         *)
(* The specifications share the variables below:                          *)
(*   SpecMem       one Memory.Read / Memory.Write against a USB device     *)
(*                 whose transfers may fail and whose reads return any data*)
(*   SpecAdc       any sequence of Adc operations, any device responses    *)
(*   SpecCapture   the NewCapture loop, one step per statement of the loop *)
(*   SpecFpga      Fpga.Program, one step per device interaction           *)
(*   SpecClk       calcClkGenMulDiv and SetClkGenOutputFreq                *)
(*   SpecDecode    ProcessTraceData on raw buffers                         *)
(*   SpecUsartRead Usart.Read, one step per turn of its polling loop       *)
(*   SpecUsbClose  UsbDevice.Close, called any number of times             *)
(*   SpecSaveLoad  Capture.SaveIo followed by LoadCaptureIo                *)
(*   SpecProgram   ProgramDevice                                           *)
(*   SpecSerial    NewSimpleSerial                                         *)
(***************************************************************************)
EXTENDS Integers, Sequences, FiniteSets, TLC

VARIABLES
    req,      \* SpecMem: the Memory call being made (drawn in MemInit)
    usbLog,   \* SpecMem: the USB transfers the call issued, in order
    memRes,   \* SpecMem: the call's result (error, data read, caller's buffer)
    adc,      \* the Adc object: its fields err and hwMaxSamples
    call,     \* SpecAdc: the last Adc operation: name, err before it, Memory
              \* operations it issued, value it returned
    pc,       \* SpecCapture: position in NewCapture
    capture,  \* SpecCapture: the Capture being built
    trace,    \* SpecCapture: the trace of the current iteration
    numTraces,\* SpecCapture: NewCapture's numTraces argument
    rxq,      \* SpecCapture: response lines waiting in the USART receive buffer
    iter,     \* SpecCapture: the current iteration: number and what it did
    result,   \* SpecCapture: what NewCapture returned
    fpga,     \* SpecFpga: one call of Fpga.Program: position, transfers, result
    fn        \* the other specifications: the call under study, with its
              \* arguments, its progress and its result

memVars == <<req, usbLog, memRes>>
adcVars == <<adc, call>>
capVars == <<pc, capture, trace, numTraces, rxq, iter, result>>
vars == <<req, usbLog, memRes, adc, call, pc, capture, trace, numTraces, rxq, iter, result,
          fpga, fn>>

Nil == "nil"

-----------------------------------------------------------------------------
(* Bounds of the model. *)

\* Buffers up to this length take every combination of ByteVals; longer ones
\* are a fill byte with at most one deviating position.
MaxSmallLen == 2
\* The most status polls WaitForTigger makes before its deadline fires.
MaxPolls == 2
\* The most iterations of the capture loop that are explored.
MaxIters == 3
\* The largest numTraces NewCapture is called with.
MaxTraces == 2
\* Response lines the USART receive buffer holds at most.
MaxQueued == 3
MaxWords == 3
MaxReadLen == 3
MaxReadPolls == 4
MaxUsbOps == 2
MaxCloses == 3
MaxSaved == 2
MaxFwLen == 2

-----------------------------------------------------------------------------
(* Byte and word arithmetic, as Go computes it. *)

RECURSIVE BitAndN(_, _, _)
BitAndN(a, b, n) ==
    IF n = 0 THEN 0
    ELSE (IF a % 2 = 1 /\ b % 2 = 1 THEN 1 ELSE 0)
         + 2 * BitAndN(a \div 2, b \div 2, n - 1)

And8(a, b) == BitAndN(a, b, 8)
Or8(a, b) == a + b - And8(a, b)
Not8(a) == 255 - a

\* Numbers past 31 bits are kept as two 16-bit limbs, [h, l] for h * Limb + l.
Limb == 65536

\* binary.LittleEndian encoding of a uint32.
LE32(n) ==
    << n % 256, (n \div 256) % 256, (n \div 65536) % 256, (n \div 16777216) % 256 >>

-----------------------------------------------------------------------------
(* USB request codes. *)

ReqMemReadBulk == 16
ReqMemWriteBulk == 17
ReqMemReadCtrl == 18
ReqMemWriteCtrl == 19

-----------------------------------------------------------------------------
(* Memory: the external-memory protocol over a UsbDeviceInterface.         *)

ByteVals == {170, 171, 187}          \* 0xaa, 0xab, 0xbb
MaskVals == {0, 15, 255}             \* 0x00, 0x0f, 0xff
MemAddrs == {3, 287454020}           \* addrAdcData, 0x11223344
MemLens == {1, MaxSmallLen, 47, 48, 49}

\* len bytes, all fill except position i, which holds c.
Patch(len, fill, i, c) == [k \in 1..len |-> IF k = i THEN c ELSE fill]

Bufs(len, vals) ==
    IF len <= MaxSmallLen THEN [1..len -> vals]
    ELSE LET fill == CHOOSE f \in vals : \A g \in vals : f <= g
         IN  {Patch(len, fill, i, c) : i \in {1, len}, c \in vals}

\* AddressBlock{Dlen, Addr} as binary.Write(LittleEndian) lays it out.
AddressBlock(dlen, addr) == LE32(dlen) \o LE32(addr)

\* The framing choice of doRead and doWrite.
UseCtrlLe(len) == len <= 48
UseCtrl(len) == len < 48

ControlOut(request, buf) == [kind |-> "ControlOut", req |-> request, buf |-> buf]
ControlIn(request, n) == [kind |-> "ControlIn", req |-> request, len |-> n]
BulkIn(n) == [kind |-> "BulkIn", req |-> 0, len |-> n]
BulkOut(buf) == [kind |-> "BulkOut", req |-> 0, buf |-> buf]

Zeros(len) == [k \in 1..len |-> 0]

\* What the device does during one read: the header transfer fails, or the
\* payload transfer fails or (bulk) comes back short, or the bytes arrive.
ReadDevs(len) ==
    {[hdrOk |-> FALSE, pay |-> "ok", data |-> Zeros(len)]}
    \cup {[hdrOk |-> TRUE, pay |-> p, data |-> Zeros(len)] :
             p \in IF len < 48 THEN {"err"} ELSE {"err", "short"}}
    \cup {[hdrOk |-> TRUE, pay |-> "ok", data |-> d] : d \in Bufs(len, ByteVals)}

\* doRead that goes on to the payload transfer although the header failed.
doReadIgnoreHdr(addr, len, dev) ==
    LET cmd == IF UseCtrl(len) THEN ReqMemReadCtrl ELSE ReqMemReadBulk
        hdr == ControlOut(cmd, AddressBlock(len, addr))
    IN  IF cmd = ReqMemReadBulk
        THEN [err |-> IF dev.pay = "ok" /\ dev.hdrOk THEN Nil ELSE "read failed",
              data |-> dev.data, log |-> <<hdr, BulkIn(len)>>]
        ELSE [err |-> IF dev.pay = "ok" /\ dev.hdrOk THEN Nil ELSE "read failed",
              data |-> dev.data, log |-> <<hdr, ControlIn(ReqMemReadCtrl, len)>>]

doRead(addr, len, dev) ==
    LET cmd == IF UseCtrl(len) THEN ReqMemReadCtrl ELSE ReqMemReadBulk
        hdr == ControlOut(cmd, AddressBlock(len, addr))
    IN  IF ~dev.hdrOk
        THEN [err |-> "ControlOut AddressBlock failed", data |-> Zeros(len), log |-> <<hdr>>]
        ELSE IF cmd = ReqMemReadBulk
        THEN LET log == <<hdr, BulkIn(len)>>
             IN  IF dev.pay = "err"
                 THEN [err |-> "ReqMemReadBulk data failed", data |-> Zeros(len), log |-> log]
                 ELSE IF dev.pay = "short"
                 THEN [err |-> "Failed to read entire buffer over bulk interface",
                       data |-> Zeros(len), log |-> log]
                 ELSE [err |-> Nil, data |-> dev.data, log |-> log]
        ELSE LET log == <<hdr, ControlIn(ReqMemReadCtrl, len)>>
             IN  IF dev.pay # "ok"
                 THEN [err |-> "ReqMemReadCtrl data failed", data |-> Zeros(len), log |-> log]
                 ELSE [err |-> Nil, data |-> dev.data, log |-> log]

\* Memory.Read into a byte buffer of len bytes.
MemoryRead(addr, len, dev) ==
    LET r == doRead(addr, len, dev)
    IN  IF r.err # Nil
        THEN [err |-> "m.doRead failed", data |-> Zeros(len), log |-> r.log]
        ELSE r

NoMask == [set |-> FALSE, bytes |-> <<>>]
Mask(bytes) == [set |-> TRUE, bytes |-> bytes]

\* What the device does during one write: the control-OUT fails, or the
\* bulk-OUT fails or is short, or the write goes through and the read-back
\* (when there is one) does one of the things a read can do.
NoRead(len) == [hdrOk |-> TRUE, pay |-> "ok", data |-> Zeros(len)]

WriteDevs(len, validate) ==
    {[hdrOk |-> FALSE, pay |-> "ok", rd |-> NoRead(len)]}
    \cup {[hdrOk |-> TRUE, pay |-> p, rd |-> NoRead(len)] :
             p \in IF len < 48 THEN {} ELSE {"err", "short"}}
    \cup {[hdrOk |-> TRUE, pay |-> "ok", rd |-> r] :
             r \in IF validate THEN ReadDevs(len) ELSE {NoRead(len)}}

\* actual[i] &= m; expected[i] &= m, for every i, m of the mask.
AndMask(buf, mask) == [k \in 1..Len(buf) |-> And8(buf[k], mask[k])]

\* The comparison of doWrite's verification: nil when it passes.
VerifyNoMaskApplied(data, actual, mask) ==
    IF mask.set /\ Len(mask.bytes) # Len(data)
    THEN "Mask length doesn't match data length"
    ELSE IF data # actual THEN "Write verification failed" ELSE Nil

VerifyAlwaysPasses(data, actual, mask) ==
    IF mask.set /\ Len(mask.bytes) # Len(data)
    THEN "Mask length doesn't match data length"
    ELSE Nil

Verify(data, actual, mask) ==
    IF mask.set /\ Len(mask.bytes) # Len(data)
    THEN "Mask length doesn't match data length"
    ELSE LET expected == IF mask.set THEN AndMask(data, mask.bytes) ELSE data
             masked == IF mask.set THEN AndMask(actual, mask.bytes) ELSE actual
         IN  IF expected # masked THEN "Write verification failed" ELSE Nil

\* doWrite that reads back although validate is false.
doWriteAlwaysReadsBack(addr, data, validate, mask, dev) ==
    LET len == Len(data)
        cmd == IF UseCtrl(len) THEN ReqMemWriteCtrl ELSE ReqMemWriteBulk
        info == AddressBlock(len, addr)
        out == IF cmd = ReqMemWriteCtrl THEN <<ControlOut(cmd, info \o data)>>
               ELSE <<ControlOut(cmd, info), BulkOut(data)>>
        rd == MemoryRead(addr, len, dev.rd)
    IN  [err |-> Nil, log |-> out \o rd.log, data |-> data]

doWrite(addr, data, validate, mask, dev) ==
    LET len == Len(data)
        cmd == IF UseCtrl(len) THEN ReqMemWriteCtrl ELSE ReqMemWriteBulk
        info == AddressBlock(len, addr)
        infoBuf == IF cmd = ReqMemWriteCtrl THEN info \o data ELSE info
        hdr == ControlOut(cmd, infoBuf)
    IN  IF ~dev.hdrOk
        THEN [err |-> "ControlOut AddressBlock failed", log |-> <<hdr>>, data |-> data]
        ELSE
        LET log1 == IF cmd = ReqMemWriteBulk THEN <<hdr, BulkOut(data)>> ELSE <<hdr>>
        IN  IF cmd = ReqMemWriteBulk /\ dev.pay = "err"
            THEN [err |-> "ReqMemWriteBulk data failed", log |-> log1, data |-> data]
            ELSE IF cmd = ReqMemWriteBulk /\ dev.pay = "short"
            THEN [err |-> "Failed to write entire buffer over bulk interface",
                  log |-> log1, data |-> data]
            ELSE IF ~validate
            THEN [err |-> Nil, log |-> log1, data |-> data]
            ELSE
            LET rd == MemoryRead(addr, len, dev.rd)
                log2 == log1 \o rd.log
            IN  IF rd.err # Nil
                THEN [err |-> "Read for verify failed", log |-> log2, data |-> data]
                ELSE [err |-> Verify(data, rd.data, mask), log |-> log2, data |-> data]

\* Memory.Write of a byte buffer; mask is nil or a byte slice.
MemoryWrite(addr, data, validate, mask, dev) ==
    LET r == doWrite(addr, data, validate, mask, dev)
    IN  [r EXCEPT !.err = IF r.err # Nil THEN "m.doWrite failed: " \o r.err ELSE Nil]

\* The masks tried with a buffer of len bytes: none, every mask of that length
\* the bounds allow, and one of a different length.
Masks(len) ==
    {NoMask} \cup {Mask(m) : m \in Bufs(len, MaskVals)} \cup {Mask(Patch(len + 1, 255, 1, 255))}

MemRequests ==
    [op : {"Read"}, addr : MemAddrs, len : MemLens, data : {<<>>},
     validate : {FALSE}, mask : {NoMask}]
    \cup UNION {
        [op : {"Write"}, addr : MemAddrs, len : {n}, data : Bufs(n, ByteVals),
         validate : {FALSE}, mask : {NoMask}]
        \cup
        [op : {"Write"}, addr : MemAddrs, len : {n}, data : Bufs(n, ByteVals),
         validate : {TRUE}, mask : Masks(n)]
        : n \in MemLens }

MemIdle == [done |-> FALSE, err |-> Nil, data |-> <<>>, buf |-> <<>>, dev |-> <<>>]

AdcNew == [err |-> Nil, hwMaxSamples |-> 0]
CallNone == [op |-> "none", errBefore |-> Nil, log |-> <<>>, calls |-> <<>>, ret |-> <<>>,
             args |-> <<>>]
TraceNone == [Pt |-> 0, Ct |-> 0, PowerMeasurements |-> <<>>]
ResultNone == [returned |-> FALSE, capture |-> <<>>, err |-> Nil]
\* What the current run of NewCapture has been through: the number of the
\* iteration, how its trigger wait and trace read ended, whether an ADC
\* operation has failed (with the capture length at that moment), the calls
\* the iteration has made so far, and the bytes its trace read received.
FpgaNone == [pc |-> "none", log |-> <<>>, attempts |-> 0, ready |-> FALSE,
             total |-> 0, left |-> 0, err |-> Nil]
FnNone == [name |-> "none"]
IterNone == [n |-> 0, timedOut |-> FALSE, empty |-> FALSE,
             failed |-> FALSE, lenAtFail |-> 0, ops |-> <<>>, raw |-> <<>>]

AdcIdle == adc = AdcNew /\ call = CallNone
CapIdle ==
    /\ pc = "idle" /\ capture = <<>> /\ trace = TraceNone /\ numTraces = 0
    /\ rxq = <<>> /\ iter = IterNone /\ result = ResultNone
    /\ fpga = FpgaNone /\ fn = FnNone

MemInit ==
    /\ req \in MemRequests
    /\ usbLog = <<>>
    /\ memRes = MemIdle
    /\ AdcIdle
    /\ CapIdle

\* m.Read(addr, out)
MemReadCall ==
    /\ req.op = "Read" /\ ~memRes.done
    /\ \E dev \in ReadDevs(req.len) :
         LET r == MemoryRead(req.addr, req.len, dev)
         IN  /\ usbLog' = r.log
             /\ memRes' = [done |-> TRUE, err |-> r.err, data |-> r.data,
                           buf |-> <<>>, dev |-> dev]
    /\ UNCHANGED <<req, adc, call, pc, capture, trace, numTraces, rxq, iter, result, fpga, fn>>

\* m.Write(addr, data, validate, mask)
MemWriteCall ==
    /\ req.op = "Write" /\ ~memRes.done
    /\ \E dev \in WriteDevs(req.len, req.validate) :
         LET r == MemoryWrite(req.addr, req.data, req.validate, req.mask, dev)
         IN  /\ usbLog' = r.log
             /\ memRes' = [done |-> TRUE, err |-> r.err, data |-> <<>>,
                           buf |-> r.data, dev |-> dev]
    /\ UNCHANGED <<req, adc, call, pc, capture, trace, numTraces, rxq, iter, result, fpga, fn>>

MemNext == MemReadCall \/ MemWriteCall

SpecMem == MemInit /\ [][MemNext]_vars

-----------------------------------------------------------------------------
(* Adc: the OpenADC register controller.  Every operation works on the     *)
(* record c = [err, hwMaxSamples, log]: the object's fields plus the       *)
(* Memory operations issued so far by the operation in progress.  The      *)
(* device's answer to each Memory operation is an argument: a read answers *)
(* [ok, val], a verified write answers TRUE (written and verified) or      *)
(* FALSE.                                                                  *)

addrSettings == 1
addrStatus == 2
addrAdcData == 3
addrGain == 0
addrOffset == 26
addrSamples == 16
addrBytestorx == 18

settingsArm == 8
settingsTrigNow == 64
statusArmMask == 1
statusFifoMask == 2
SyncByte == 172
MaxGain == 78

ReadFails == [ok |-> FALSE, val |-> 0]
ReadOk(v) == [ok |-> TRUE, val |-> v]
Reads(vals) == {ReadFails} \cup {ReadOk(v) : v \in vals}

StatusVals == {0, 1, 2, 3}
\* Values read from the settings register.  The trigger-now bit is clear in
\* all of them: setTriggerNow clears it right after setting it.
SettingsVals == {0, 44}
GainVals == {0, 45}
SampleVals == {0, 1, 3, 4}
PendingVals == {0, 4, 5, 8, 12}

\* c.err = c.fpga.Mem.Read(addr, &v): the assignment itself, whatever c.err was.
MemRd(c, addr, r) ==
    [c EXCEPT !.err = IF r.ok THEN Nil ELSE "Mem.Read failed",
              !.log = Append(@, [kind |-> "R", addr |-> addr, ok |-> r.ok,
                                val |-> IF r.ok THEN r.val ELSE 0])]

\* c.err = c.fpga.Mem.Write(addr, &v, true, nil): the operations modelled
\* here all ask for the read-back validation.
MemWr(c, addr, v, ok) ==
    [c EXCEPT !.err = IF ok THEN Nil ELSE "Mem.Write failed",
              !.log = Append(@, [kind |-> "W", addr |-> addr, ok |-> ok, val |-> v,
                                validate |-> TRUE])]

Ret(c, v) == [c |-> c, ret |-> v]

\* A method of the Adc is entered: its name is noted with the number of
\* Memory transfers issued so far.
Called(c, name) == [c EXCEPT !.calls = Append(@, [name |-> name, at |-> Len(c.log)])]

\* A guarded register read: if c.err != nil return 0; read; on failure return 0.
GetReg(c, addr, r) ==
    IF c.err # Nil THEN Ret(c, 0)
    ELSE LET c1 == MemRd(c, addr, r)
         IN  IF c1.err # Nil THEN Ret(c1, 0) ELSE Ret(c1, r.val)

\* A guarded register write: if c.err != nil return; write.
SetReg(c, addr, v, ok) == IF c.err # Nil THEN c ELSE MemWr(c, addr, v, ok)

status(c, r) == GetReg(c, addrStatus, r)
settings(c, r) == GetReg(c, addrSettings, r)
setSettings(c, v, ok) == SetReg(c, addrSettings, v, ok)
numSamples(c, r) == GetReg(c, addrSamples, r)
setNumSamples(c, n, ok) == SetReg(c, addrSamples, n, ok)

Gain(c, r) == GetReg(c, addrGain, r)

\* A variant of SetGain without the range test.
SetGainUnchecked(c, gain, ok) ==
    IF c.err # Nil THEN c ELSE MemWr(c, addrGain, gain, ok)

SetGain(c, gain, ok) ==
    IF c.err # Nil THEN c
    ELSE IF gain > MaxGain THEN [c EXCEPT !.err = "Invalid gain"]
    ELSE MemWr(c, addrGain, gain, ok)

TriggerOffset(c, r) == GetReg(c, addrOffset, r)
SetTriggerOffset(c, offset, ok) == SetReg(c, addrOffset, offset, ok)

TotalSamples(c, r) == numSamples(c, r)

\* A uint32 at or above 2^31 is written as the negative integer congruent to
\* it modulo 2^32, so that every uint32 is one machine integer.  On operands
\* below 2^31 the difference has that form already; the order of two uint32
\* is the order of the integers when they have the same sign, and otherwise
\* the negative one is the larger.
SubU32(a, b) == a - b
U32Greater(a, b) == IF (a < 0) = (b < 0) THEN a > b ELSE a < 0

SetTotalSamples(c, samples, ok) ==
    IF U32Greater(samples, c.hwMaxSamples) THEN [c EXCEPT !.err = "samples outside limit"]
    ELSE setNumSamples(c, samples, ok)

addrSysFreq == 7
addrAdcFreq == 8
addrDecimate == 15
\* float64(1<<23): the unit of the frequency counter.
SampleFreqUnit == 8388608
Uint16 == 65536

SysFreq(c, r) == GetReg(c, addrSysFreq, r)

\* uint32(float64(adcFreq) * float64(sysFreq) / float64(1<<23)), on system
\* frequencies that are whole multiples of the unit, where the product is
\* exact.
AdcFreq(c, rs, ra) ==
    IF c.err # Nil THEN Ret(c, 0)
    ELSE LET s == SysFreq(c, rs)
         IN  IF s.c.err # Nil THEN Ret(s.c, 0)
             ELSE LET c2 == MemRd(s.c, addrAdcFreq, ra)
                  IN  IF c2.err # Nil THEN Ret(c2, 0)
                      ELSE Ret(c2, ra.val * (s.ret \div SampleFreqUnit))

\* var n uint16; read; return n + 1: the sum is a uint16.
decimate(c, r) ==
    IF c.err # Nil THEN Ret(c, 0)
    ELSE LET c1 == MemRd(c, addrDecimate, r)
         IN  IF c1.err # Nil THEN Ret(c1, 0) ELSE Ret(c1, (r.val + 1) % Uint16)

\* return c.AdcFreq() / uint32(decimation): both operands are evaluated, then
\* the quotient; an integer division by zero panics.  The result notes
\* whether the division was evaluated and by what.
AdcSampleRate(c, dev) ==
    IF c.err # Nil THEN Ret(c, [divided |-> FALSE, decimation |-> 0, panics |-> FALSE, rate |-> 0])
    ELSE LET d == decimate(c, dev.dec)
             f == AdcFreq(d.c, dev.sys, dev.freq)
         IN  Ret(f.c, [divided |-> TRUE, decimation |-> d.ret, panics |-> d.ret = 0,
                       rate |-> IF d.ret = 0 THEN 0 ELSE f.ret \div d.ret])

DecimateVals == {0, 1, 65535}
SysFreqVals == {8388608}
AdcFreqVals == {96}
SampleRateDevs ==
    [dec : Reads(DecimateVals), sys : Reads(SysFreqVals), freq : Reads(AdcFreqVals)]

\* Device answers to a read of the settings register followed by n writes of
\* it: the read fails, or it answers and the writes succeed up to the first
\* that fails.
RdWrDevsOf(vals, n) ==
    {[rd |-> ReadFails, w |-> [k \in 1..n |-> TRUE]]}
    \cup {[rd |-> ReadOk(v), w |-> [k \in 1..n |-> k < f]] :
             v \in vals, f \in 1..(n + 1)}
RdWrDevs(n) == RdWrDevsOf(SettingsVals, n)

SetArmOn(c, dev) ==
    LET s == settings(c, dev.rd)
    IN  setSettings(s.c, Or8(s.ret, settingsArm), dev.w[1])

SetArmOff(c, dev) ==
    LET s == settings(Called(c, "SetArmOff"), dev.rd)
    IN  setSettings(s.c, And8(s.ret, Not8(settingsArm)), dev.w[1])

setTriggerNow(c, dev) ==
    IF c.err # Nil THEN Called(c, "setTriggerNow")
    ELSE LET s == settings(Called(c, "setTriggerNow"), dev.rd)
             c1 == setSettings(s.c, Or8(s.ret, settingsTrigNow), dev.w[1])
         IN  setSettings(c1, And8(s.ret, Not8(settingsTrigNow)), dev.w[2])

\* status&statusArmMask != statusArmMask && status&statusFifoMask != 0
Triggered(st) == And8(st, statusArmMask) # statusArmMask /\ And8(st, statusFifoMask) # 0

\* The polling goroutine of WaitForTigger: one element of polls per turn of the
\* loop that finds the timer not yet fired; the timer fires when polls is used
\* up.  (A turn of the loop with c.err set reads nothing.)
RECURSIVE PollLoop(_, _)
PollLoop(c, polls) ==
    IF polls = <<>> THEN [c |-> c, fired |-> TRUE]
    ELSE LET s == status(Called(c, "status"), Head(polls))
         IN  IF Triggered(s.ret) THEN [c |-> s.c, fired |-> FALSE]
             ELSE PollLoop(s.c, Tail(polls))

\* A variant that returns on timeout without disarming.
WaitForTiggerArmedOnTimeout(c, dev) ==
    LET p == PollLoop(c, dev.polls)
    IN  IF p.fired THEN Ret(setTriggerNow(p.c, dev.now), TRUE)
        ELSE Ret(SetArmOff(p.c, dev.off), FALSE)

\* A variant that forces the trigger whatever the polling saw.
WaitForTiggerForcesAlways(c, dev) ==
    LET p == PollLoop(c, dev.polls)
    IN  Ret(SetArmOff(setTriggerNow(p.c, dev.now), dev.off), p.fired)

WaitForTigger(c, dev) ==
    LET p == PollLoop(c, dev.polls)
        c1 == IF p.fired THEN setTriggerNow(p.c, dev.now) ELSE p.c
    IN  Ret(SetArmOff(c1, dev.off), p.fired)

\* Poll answers before the deadline: only the last may end the polling (a
\* triggered status) or latch the error (a failed read).
QuietPolls == {ReadOk(v) : v \in {x \in StatusVals : ~Triggered(x)}}
LastPolls == {ReadFails} \cup {ReadOk(v) : v \in {x \in StatusVals : Triggered(x)}}

PollSeqsOf(quiet, n) ==
    UNION {[1..k -> quiet] : k \in 0..n}
    \cup UNION {{q \o <<t>> : q \in [1..k -> quiet], t \in LastPolls} :
                 k \in 0..(n - 1)}
PollSeqs == PollSeqsOf(QuietPolls, MaxPolls)

\* Device answers during one WaitForTigger: to the polls, to setTriggerNow and
\* to SetArmOff.  Answers nobody asks for are left out: none to setTriggerNow
\* when the polling ended before the deadline, none at all after a failed
\* poll.
EndsTriggered(polls) ==
    polls # <<>> /\ polls[Len(polls)].ok /\ Triggered(polls[Len(polls)].val)
EndsFailed(polls) == polls # <<>> /\ ~polls[Len(polls)].ok
AllOk(devs) == CHOOSE d \in devs : d.rd.ok /\ \A k \in DOMAIN d.w : d.w[k]
WaitDevsOf(seqs, nows, offs) ==
    {d \in [polls : seqs, now : nows, off : offs] :
        /\ EndsTriggered(d.polls) => d.now = AllOk(nows)
        /\ EndsFailed(d.polls) => (d.now = AllOk(nows) /\ d.off = AllOk(offs))}
WaitDevs == WaitDevsOf(PollSeqs, RdWrDevs(2), RdWrDevs(1))

\* A 4-byte big-endian sample word: trigger tag in bits [30:32), samples in
\* bits [20:30), [10:20) and [0:10).
WordBytes(tag, f3, f2, f1) ==
    << tag * 64 + f3 \div 16,
       (f3 % 16) * 16 + f2 \div 64,
       (f2 % 64) * 4 + f1 \div 256,
       f1 % 256 >>

\* binary.Read(BigEndian) of data[i..i+3] and the shifts and masks applied to
\* the word, computed on its two 16-bit halves.
WordAt(data, i) ==
    LET hi == data[i] * 256 + data[i + 1]
        lo == data[i + 2] * 256 + data[i + 3]
    IN  [w1 |-> lo % 1024,                            \* word & 0x3ff
         w2 |-> (hi % 16) * 64 + lo \div 1024,        \* (word >> 10) & 0x3ff
         w3 |-> (hi \div 16) % 1024,                  \* (word >> 20) & 0x3ff
         trigger |-> hi \div 16384]                   \* word >> 30

\* float64(w)/1024.0 - 0.5, in units of 1/1024.
Measurement(w) == w - 512

\* A variant of the decode loop that applies the trigger tag to every word,
\* also after the trigger was found.
RECURSIVE DecodeFromTagEveryWord(_, _, _)
DecodeFromTagEveryWord(data, i, st) ==
    IF ~(i - 1 < Len(data) - 3) THEN st
    ELSE LET w == WordAt(data, i)
             read == [st EXCEPT !.err = Nil]
         IN  DecodeFromTagEveryWord(data, i + 4,
                [read EXCEPT
                   !.ms = @ \o (IF w.trigger < 3 THEN <<Measurement(w.w3)>> ELSE <<>>)
                            \o (IF w.trigger < 2 THEN <<Measurement(w.w2)>> ELSE <<>>)
                            \o (IF w.trigger < 1 THEN <<Measurement(w.w1)>> ELSE <<>>),
                   !.triggerFound = @ \/ w.trigger < 3])

\* The decode loop of ProcessTraceData from 1-based position i on; st holds
\* c.err, the measurements so far and triggerFound.
RECURSIVE DecodeFrom(_, _, _)
DecodeFrom(data, i, st) ==
    IF ~(i - 1 < Len(data) - 3) THEN st
    ELSE LET w == WordAt(data, i)
             m1 == Measurement(w.w1)
             m2 == Measurement(w.w2)
             m3 == Measurement(w.w3)
             read == [st EXCEPT !.err = Nil]   \* c.err = binary.Read(...)
         IN  IF ~st.triggerFound
             THEN IF w.trigger = 3 THEN DecodeFrom(data, i + 4, read)
                  ELSE DecodeFrom(data, i + 4,
                          [read EXCEPT
                             !.ms = @ \o (IF w.trigger < 3 THEN <<m3>> ELSE <<>>)
                                      \o (IF w.trigger < 2 THEN <<m2>> ELSE <<>>)
                                      \o (IF w.trigger < 1 THEN <<m1>> ELSE <<>>),
                             !.triggerFound = TRUE])
             ELSE DecodeFrom(data, i + 4, [read EXCEPT !.ms = @ \o <<m1, m2, m3>>])

\* A variant of ProcessTraceData that does not look at the first byte.
ProcessTraceDataAnySync(c, data) ==
    IF Len(data) < 4 \/ Len(data) % 4 # 0
    THEN Ret([c EXCEPT !.err = "Unexpected data length"], <<>>)
    ELSE LET st == DecodeFrom(data, 2, [err |-> c.err, ms |-> <<>>, triggerFound |-> FALSE])
         IN  Ret([c EXCEPT !.err = st.err], st.ms)

ProcessTraceData(c, data) ==
    IF Len(data) < 4 \/ Len(data) % 4 # 0
    THEN Ret([c EXCEPT !.err = "Unexpected data length"], <<>>)
    ELSE IF data[1] # SyncByte
    THEN Ret([c EXCEPT !.err = "Unexpected sync byte"], <<>>)
    ELSE LET st == DecodeFrom(data, 2, [err |-> c.err, ms |-> <<>>, triggerFound |-> FALSE])
         IN  Ret([c EXCEPT !.err = st.err], st.ms)

\* The read length TraceData computes from the sample count and the pending
\* byte count.
\* toRead*4 and /3 on a uint32: the product wraps at 2^32 before the
\* division. (samples is a register value below 2^31 here, so the rounding
\* up to a multiple of three does not wrap.)
Mul4U32(n) ==
    [h |-> (4 * (n \div Limb) + (4 * (n % Limb)) \div Limb) % Limb,
     l |-> (4 * (n % Limb)) % Limb]
Div3U32(b) == (b.h \div 3) * Limb + ((b.h % 3) * Limb + b.l) \div 3

ToRead(samples, pending) ==
    LET rounded == IF (samples % 3) # 0 THEN samples + (3 - (samples % 3)) ELSE samples
        want == Div3U32(Mul4U32(rounded)) + 256
    IN  IF pending < want THEN pending ELSE want

\* data := make([]byte, toRead); c.err = c.fpga.Mem.Read(addrAdcData, data)
MemRdBuf(c, addr, n, r) ==
    [c EXCEPT !.err = IF r.ok THEN Nil ELSE "Mem.Read failed",
              !.log = Append(@, [kind |-> "R", addr |-> addr, ok |-> r.ok,
                                val |-> IF r.ok THEN r.val ELSE 0, len |-> n])]

Take(seq, n) == SubSeq(seq, 1, n)

\* A variant of TraceData that returns the whole decode result.
TraceDataWhole(c, dev) ==
    LET c1 == MemRd(c, addrBytestorx, dev.pending)
    IN  IF c1.err # Nil THEN Ret(c1, <<>>)
        ELSE IF dev.pending.val = 0 THEN Ret(c1, <<>>)
        ELSE
        LET ns == numSamples(c1, dev.samples)
            c2 == MemRdBuf(ns.c, addrAdcData, ToRead(ns.ret, dev.pending.val), dev.data)
        IN  IF c2.err # Nil
            THEN Ret([c2 EXCEPT !.err = "Failed reading trace data"], <<>>)
            ELSE
            LET pr == ProcessTraceData(c2, dev.data.val)
            IN  IF pr.c.err # Nil THEN Ret(pr.c, <<>>) ELSE pr

\* dev.pending and dev.samples answer the two register reads, dev.data the
\* read of the data register (dev.data.val holds the bytes).
TraceData(c, dev) ==
    LET c1 == MemRd(c, addrBytestorx, dev.pending)
    IN  IF c1.err # Nil THEN Ret(c1, <<>>)
        ELSE IF dev.pending.val = 0 THEN Ret(c1, <<>>)
        ELSE
        LET ns == numSamples(c1, dev.samples)
            c2 == MemRdBuf(ns.c, addrAdcData, ToRead(ns.ret, dev.pending.val), dev.data)
        IN  IF c2.err # Nil
            THEN Ret([c2 EXCEPT !.err = "Failed reading trace data"], <<>>)
            ELSE
            LET pr == ProcessTraceData(c2, dev.data.val)
            IN  IF pr.c.err # Nil THEN Ret(pr.c, <<>>)
                ELSE IF Len(pr.ret) > ns.ret THEN Ret(pr.c, Take(pr.ret, ns.ret))
                ELSE pr

\* Raw buffers of n bytes the data register may deliver: a first byte that is
\* the sync byte or not, whole sample words, and filler up to n bytes.
TraceWords == {WordBytes(t, 700, 600, 500) : t \in 0..3}

RECURSIVE WordSeqs(_)
WordSeqs(k) ==
    IF k = 0 THEN {<<>>}
    ELSE {w \o s : w \in TraceWords, s \in WordSeqs(k - 1)}

TraceBufs(n) ==
    IF n = 0 THEN {<<>>}
    ELSE {<<b>> \o ws \o [k \in 1..((n - 1) % 4) |-> 0] :
            b \in {SyncByte, 0}, ws \in WordSeqs((n - 1) \div 4)}

\* Device answers during one TraceData: the pending-count read fails or gives
\* the count; with a count above zero the sample-count read answers, and the
\* data read fails or delivers as many bytes as were asked for.
TraceDevsOf(pendings, samples) ==
    {[pending |-> p, samples |-> ReadFails, data |-> [ok |-> FALSE, val |-> <<>>]] :
        p \in {ReadFails, ReadOk(0)}}
    \cup UNION {
        {[pending |-> ReadOk(p), samples |-> sm, data |-> [ok |-> FALSE, val |-> <<>>]] :
            sm \in Reads(samples)}
        \cup
        UNION {{[pending |-> ReadOk(p), samples |-> sm, data |-> [ok |-> TRUE, val |-> d]] :
                   d \in TraceBufs(ToRead(IF sm.ok THEN sm.val ELSE 0, p))} :
               sm \in Reads(samples)}
        : p \in pendings \ {0}}
\* A device with many bytes pending whose sample-count register holds a
\* value past 2^30: the data read delivers the bytes asked for, a sync byte
\* and zeros.
HugeSampleVals == {1073741826}
ManyPendingVals == {260}
LongBufs(n) == {[k \in 1..n |-> IF k = 1 THEN SyncByte ELSE 0]}
HugeTraceDevs ==
    UNION {{[pending |-> ReadOk(p), samples |-> ReadOk(sm), data |-> [ok |-> TRUE, val |-> d]] :
               d \in LongBufs(ToRead(sm, p))} :
           p \in ManyPendingVals, sm \in HugeSampleVals}
TraceDevs == TraceDevsOf(PendingVals, SampleVals) \cup HugeTraceDevs

-----------------------------------------------------------------------------
(* SpecAdc: a constructed Adc on which callers invoke operations in any    *)
(* order, against a device that may answer anything.                       *)

HwMaxSamplesVals == {3}
GainArgs == {45, 78, 79}
SampleArgs == {3, 4}
OffsetArgs == {0}

\* The operation's view of the object on entry.
Enter == [err |-> adc.err, hwMaxSamples |-> adc.hwMaxSamples, log |-> <<>>, calls |-> <<>>]

\* The object's fields and the record of the call when the operation returns.
Obj(c) == [err |-> c.err, hwMaxSamples |-> c.hwMaxSamples]
Call(op, c, ret) ==
    [op |-> op, errBefore |-> adc.err, log |-> c.log, calls |-> c.calls, ret |-> ret,
     args |-> <<>>]
\* The same for an operation whose arguments are kept.
CallOf(op, args, c, ret) == [Call(op, c, ret) EXCEPT !.args = args]

\* No operation is in progress: the caller may invoke the next one.
Ready == call.op = "none"

AdcInit ==
    /\ adc \in [err : {Nil}, hwMaxSamples : HwMaxSamplesVals]
    /\ call = CallNone
    /\ req = [op |-> "none"] /\ usbLog = <<>> /\ memRes = MemIdle
    /\ CapIdle

AdcError ==
    /\ Ready
    /\ adc' = adc
    /\ call' = Call("Error", Enter, <<adc.err>>)
    /\ UNCHANGED <<req, usbLog, memRes, pc, capture, trace, numTraces, rxq, iter, result, fpga, fn>>

AdcGain ==
    /\ Ready
    /\ \E r \in Reads(GainVals) :
          LET x == Gain(Enter, r)
          IN  adc' = Obj(x.c) /\ call' = Call("Gain", x.c, <<x.ret>>)
    /\ UNCHANGED <<req, usbLog, memRes, pc, capture, trace, numTraces, rxq, iter, result, fpga, fn>>

AdcSetGain ==
    /\ Ready
    /\ \E gain \in GainArgs, ok \in BOOLEAN :
          LET c == SetGain(Enter, gain, ok)
          IN  adc' = Obj(c) /\ call' = CallOf("SetGain", <<gain>>, c, <<>>)
    /\ UNCHANGED <<req, usbLog, memRes, pc, capture, trace, numTraces, rxq, iter, result, fpga, fn>>

AdcTotalSamples ==
    /\ Ready
    /\ \E r \in Reads(SampleVals) :
          LET x == TotalSamples(Enter, r)
          IN  adc' = Obj(x.c) /\ call' = Call("TotalSamples", x.c, <<x.ret>>)
    /\ UNCHANGED <<req, usbLog, memRes, pc, capture, trace, numTraces, rxq, iter, result, fpga, fn>>

AdcSetTotalSamples ==
    /\ Ready
    /\ \E samples \in SampleArgs, ok \in BOOLEAN :
          LET c == SetTotalSamples(Enter, samples, ok)
          IN  adc' = Obj(c) /\ call' = CallOf("SetTotalSamples", <<samples>>, c, <<>>)
    /\ UNCHANGED <<req, usbLog, memRes, pc, capture, trace, numTraces, rxq, iter, result, fpga, fn>>

AdcSetTriggerOffset ==
    /\ Ready
    /\ \E offset \in OffsetArgs, ok \in BOOLEAN :
          LET c == SetTriggerOffset(Enter, offset, ok)
          IN  adc' = Obj(c) /\ call' = Call("SetTriggerOffset", c, <<>>)
    /\ UNCHANGED <<req, usbLog, memRes, pc, capture, trace, numTraces, rxq, iter, result, fpga, fn>>

AdcSetArmOn ==
    /\ Ready
    /\ \E dev \in RdWrDevs(1) :
          LET c == SetArmOn(Enter, dev)
          IN  adc' = Obj(c) /\ call' = Call("SetArmOn", c, <<>>)
    /\ UNCHANGED <<req, usbLog, memRes, pc, capture, trace, numTraces, rxq, iter, result, fpga, fn>>

AdcSetArmOff ==
    /\ Ready
    /\ \E dev \in RdWrDevs(1) :
          LET c == SetArmOff(Enter, dev)
          IN  adc' = Obj(c) /\ call' = Call("SetArmOff", c, <<>>)
    /\ UNCHANGED <<req, usbLog, memRes, pc, capture, trace, numTraces, rxq, iter, result, fpga, fn>>

AdcWaitForTigger ==
    /\ Ready
    /\ \E dev \in WaitDevs :
          LET x == WaitForTigger(Enter, dev)
          IN  adc' = Obj(x.c) /\ call' = Call("WaitForTigger", x.c, <<x.ret>>)
    /\ UNCHANGED <<req, usbLog, memRes, pc, capture, trace, numTraces, rxq, iter, result, fpga, fn>>

AdcTraceData ==
    /\ Ready
    /\ \E dev \in TraceDevs :
          LET x == TraceData(Enter, dev)
          IN  adc' = Obj(x.c) /\ call' = Call("TraceData", x.c, x.ret)
    /\ UNCHANGED <<req, usbLog, memRes, pc, capture, trace, numTraces, rxq, iter, result, fpga, fn>>

AdcProcessTraceData ==
    /\ Ready
    /\ \E n \in PendingVals \ {0} : \E data \in TraceBufs(n) :
          LET x == ProcessTraceData(Enter, data)
          IN  adc' = Obj(x.c) /\ call' = Call("ProcessTraceData", x.c, x.ret)
    /\ UNCHANGED <<req, usbLog, memRes, pc, capture, trace, numTraces, rxq, iter, result, fpga, fn>>

\* The caller has the returned value and goes on to its next call.
AdcAdcSampleRate ==
    /\ Ready
    /\ \E dev \in SampleRateDevs :
          LET x == AdcSampleRate(Enter, dev)
          IN  adc' = Obj(x.c) /\ call' = Call("AdcSampleRate", x.c, x.ret)
    /\ UNCHANGED <<req, usbLog, memRes, pc, capture, trace, numTraces, rxq, iter, result, fpga, fn>>

AdcCallerGoesOn ==
    /\ ~Ready
    /\ call' = CallNone
    /\ UNCHANGED <<adc, req, usbLog, memRes, pc, capture, trace, numTraces, rxq, iter, result, fpga, fn>>

AdcNext ==
    \/ AdcError
    \/ AdcGain
    \/ AdcSetGain
    \/ AdcTotalSamples
    \/ AdcSetTotalSamples
    \/ AdcSetTriggerOffset
    \/ AdcSetArmOn
    \/ AdcSetArmOff
    \/ AdcWaitForTigger
    \/ AdcTraceData
    \/ AdcProcessTraceData
    \/ AdcAdcSampleRate
    \/ AdcCallerGoesOn

SpecAdc == AdcInit /\ [][AdcNext]_vars

-----------------------------------------------------------------------------
(* SpecCapture: one run of NewCapture, statement by statement, against a   *)
(* device and a target that may answer anything.                           *)

\* The device as NewCapture sees it: the settings register reads back with
\* the arm bit, the status register reads armed until the trigger, and a
\* trace of zero or eight pending bytes for one or three samples.
CapRdWrDevs(n) == RdWrDevsOf({settingsArm}, n)
CapWaitDevs ==
    WaitDevsOf(PollSeqsOf({ReadOk(statusArmMask)}, 1), CapRdWrDevs(2), CapRdWrDevs(1))
CapTraceDevs == TraceDevsOf({0, 8}, {1, 3})

NumTracesArgs == -1..MaxTraces

\* The loop condition with every trace appended.
MoreTracesOrEqual(cap, n) == Len(cap) <= n

\* for len(capture) < numTraces
MoreTraces(cap, n) == Len(cap) < n

\* return nil, err
Fails(err) == [returned |-> TRUE, capture |-> <<>>, err |-> err]
\* return capture, nil
Succeeds(cap) == [returned |-> TRUE, capture |-> cap, err |-> Nil]

\* An ADC operation that started from c0 and ended in c met a failure: it
\* ran with the error set, left it set, or had a Memory transfer fail.
OpFailed(c0, c) ==
    \/ c0.err # Nil
    \/ c.err # Nil
    \/ \E i \in DOMAIN c.log : ~c.log[i].ok
NoteFailure(it, failed) ==
    IF failed /\ ~it.failed
    THEN [it EXCEPT !.failed = TRUE, !.lenAtFail = Len(capture)]
    ELSE it

\* The iteration has called op, which went well or not.
Did(it, op, ok) == [it EXCEPT !.ops = Append(@, [op |-> op, ok |-> ok])]
\* The read of the data register took place and delivered bytes.
DataRead(c) == \E i \in DOMAIN c.log : c.log[i].addr = addrAdcData /\ c.log[i].ok

CapInit ==
    /\ pc = "start" /\ capture = <<>> /\ trace = TraceNone /\ numTraces = 0
    /\ rxq = <<>> /\ iter = IterNone /\ result = ResultNone
    /\ fpga = FpgaNone /\ fn = FnNone
    /\ AdcIdle
    /\ req = [op |-> "none"] /\ usbLog = <<>> /\ memRes = MemIdle

\* NewCapture up to the loop: the device, the FPGA, the Adc, the Usart and
\* the SimpleSerial are set up and the key is written; any of them failing
\* returns the error.
CapStart ==
    /\ pc = "start"
    /\ \E n \in NumTracesArgs, setupOk \in BOOLEAN, hw \in HwMaxSamplesVals,
          samples \in SampleArgs, offset \in OffsetArgs, ok1 \in BOOLEAN, ok2 \in BOOLEAN :
          LET c0 == [err |-> Nil, hwMaxSamples |-> hw, log |-> <<>>, calls |-> <<>>]
              c == SetTriggerOffset(SetTotalSamples(c0, samples, ok1), offset, ok2)
          IN  IF setupOk
              THEN /\ numTraces' = n
                   /\ adc' = Obj(c)
                   /\ pc' = "loop"
                   /\ UNCHANGED result
              ELSE /\ result' = Fails("setup failed")
                   /\ pc' = "done"
                   /\ UNCHANGED <<numTraces, adc>>
    /\ UNCHANGED <<req, usbLog, memRes, call, capture, trace, rxq, iter, fpga, fn>>

\* The loop condition and the check of adc.Error() that opens an iteration.
CapLoop ==
    /\ pc = "loop"
    /\ IF ~MoreTraces(capture, numTraces)
       THEN /\ result' = Succeeds(capture)
            /\ pc' = "done"
            /\ UNCHANGED <<trace, iter>>
       ELSE IF adc.err # Nil
       THEN /\ result' = Fails(adc.err)
            /\ pc' = "done"
            /\ UNCHANGED <<trace, iter>>
       ELSE /\ iter.n < MaxIters
            /\ iter' = [iter EXCEPT !.n = @ + 1, !.timedOut = FALSE, !.empty = FALSE,
                                     !.ops = <<>>, !.raw = <<>>]
            /\ trace' = TraceNone
            /\ pc' = "ptGen"
            /\ UNCHANGED result
    /\ UNCHANGED <<req, usbLog, memRes, call, adc, capture, numTraces, rxq, fpga, fn>>

\* trace.Pt, err = ptGen(): each iteration draws a fresh plaintext.
CapPtGen ==
    /\ pc = "ptGen"
    /\ \E ok \in BOOLEAN :
          IF ok
          THEN /\ trace' = [trace EXCEPT !.Pt = iter.n]
               /\ pc' = "arm"
               /\ UNCHANGED result
          ELSE /\ result' = Fails("ptGen failed")
               /\ pc' = "done"
               /\ UNCHANGED trace
    /\ UNCHANGED <<req, usbLog, memRes, call, adc, capture, numTraces, rxq, iter, fpga, fn>>

\* adc.SetArmOn()
CapSetArmOn ==
    /\ pc = "arm"
    /\ \E dev \in CapRdWrDevs(1) :
          LET c == SetArmOn(Enter, dev)
          IN  /\ adc' = Obj(c)
              /\ iter' = Did(NoteFailure(iter, OpFailed(Enter, c)), "SetArmOn", c.err = Nil)
    /\ pc' = "send"
    /\ UNCHANGED <<req, usbLog, memRes, call, capture, trace, numTraces, rxq, result, fpga, fn>>

\* ser.WritePlaintext(trace.Pt): the write fails, or the command goes out and
\* the target answers it with a response line, or stays silent.
CapWritePlaintext ==
    /\ pc = "send"
    /\ \E ok \in BOOLEAN, answers \in BOOLEAN :
          /\ answers => Len(rxq) < MaxQueued
          /\ iter' = Did(iter, "WritePlaintext", ok)
          /\ IF ok
             THEN /\ rxq' = IF answers THEN Append(rxq, trace.Pt) ELSE rxq
                  /\ pc' = "wait"
                  /\ UNCHANGED result
             ELSE /\ result' = Fails("Failed to write p command")
                  /\ pc' = "done"
                  /\ UNCHANGED rxq
    /\ UNCHANGED <<req, usbLog, memRes, call, adc, capture, trace, numTraces, fpga, fn>>

\* A variant in which a timed-out wait goes on to the response.
AfterWaitGoesOn(timedOut) == "resp"

\* if timedOut { continue }: where the iteration goes after the trigger wait.
AfterWait(timedOut) == IF timedOut THEN "loop" ELSE "resp"

\* timedOut := adc.WaitForTigger(); if timedOut { continue }
CapWaitForTigger ==
    /\ pc = "wait"
    /\ \E dev \in CapWaitDevs :
          LET x == WaitForTigger(Enter, dev)
              timedOut == x.ret
          IN  /\ adc' = Obj(x.c)
              /\ iter' = Did([NoteFailure(iter, OpFailed(Enter, x.c)) EXCEPT !.timedOut = timedOut],
                              "WaitForTigger", ~timedOut)
              /\ pc' = AfterWait(timedOut)
    /\ UNCHANGED <<req, usbLog, memRes, call, capture, trace, numTraces, rxq, result, fpga, fn>>

\* trace.Ct, err = ser.Response(): the next response line in the receive
\* queue, if there is one and it is well formed.
CapResponse ==
    /\ pc = "resp"
    /\ \E wellFormed \in BOOLEAN :
          /\ iter' = Did(iter, "Response", rxq # <<>> /\ wellFormed)
          /\ IF rxq # <<>> /\ wellFormed
             THEN /\ trace' = [trace EXCEPT !.Ct = Head(rxq)]
                  /\ rxq' = Tail(rxq)
                  /\ pc' = "trace"
                  /\ UNCHANGED result
             ELSE /\ result' = Fails("Res error")
                  /\ rxq' = IF rxq = <<>> THEN rxq ELSE Tail(rxq)
                  /\ pc' = "done"
                  /\ UNCHANGED trace
    /\ UNCHANGED <<req, usbLog, memRes, call, adc, capture, numTraces, fpga, fn>>

\* trace.PowerMeasurements = adc.TraceData(); an empty list restarts the
\* iteration, anything else is appended to the capture.
CapTraceData ==
    /\ pc = "trace"
    /\ \E dev \in CapTraceDevs :
          LET x == TraceData(Enter, dev)
              t == [trace EXCEPT !.PowerMeasurements = x.ret]
          IN  /\ adc' = Obj(x.c)
              /\ trace' = t
              /\ iter' = Did([NoteFailure(iter, OpFailed(Enter, x.c)) EXCEPT
                                 !.empty = (x.ret = <<>>),
                                 !.raw = IF DataRead(x.c) THEN dev.data.val ELSE <<>>],
                              "TraceData", x.ret # <<>>)
              /\ capture' = IF Len(x.ret) = 0 THEN capture ELSE Append(capture, t)
    /\ pc' = "loop"
    /\ UNCHANGED <<req, usbLog, memRes, call, numTraces, rxq, result, fpga, fn>>

CapNext ==
    \/ CapStart
    \/ CapLoop
    \/ CapPtGen
    \/ CapSetArmOn
    \/ CapWritePlaintext
    \/ CapWaitForTigger
    \/ CapResponse
    \/ CapTraceData

SpecCapture == CapInit /\ [][CapNext]_vars

\* The loop head once MaxIters iterations have run: a further iteration
\* starts, and iterations from there on are not numbered apart.
CapLoopAgain ==
    /\ pc = "loop"
    /\ MoreTraces(capture, numTraces)
    /\ adc.err = Nil
    /\ iter.n >= MaxIters
    /\ iter' = [iter EXCEPT !.timedOut = FALSE, !.empty = FALSE, !.ops = <<>>, !.raw = <<>>]
    /\ trace' = TraceNone
    /\ pc' = "ptGen"
    /\ UNCHANGED <<req, usbLog, memRes, call, adc, capture, numTraces, rxq, result, fpga, fn>>

\* The trigger wait that does not time out, and the trace read that yields
\* a trace: the steps that end a run of retries.
CapWaitTriggers == CapWaitForTigger /\ pc' = "resp"
CapTraceAppends == CapTraceData /\ capture' # capture

CapLiveNext == CapNext \/ CapLoopAgain

\* When the steps are possible: NewCapture can take a step until it has
\* returned, the wait can see the trigger unless the error is latched (then
\* status() reads nothing and answers 0), and TraceData can always yield
\* measurements (it overwrites the error it is entered with).
CapEnabling ==
    /\ (ENABLED CapLiveNext) <=> pc # "done"
    /\ (ENABLED CapWaitTriggers) <=> (pc = "wait" /\ adc.err = Nil)
    /\ (ENABLED CapTraceAppends) <=> pc = "trace"

\* The same steps as seen on pc and capture alone. With CapEnabling and
\* every step of NewCapture changing pc, fairness of these is fairness of
\* CapLiveNext, CapWaitTriggers and CapTraceAppends.
CapPcs == {"start", "loop", "ptGen", "arm", "send", "wait", "resp", "trace", "done"}
CapRuns == pc # "done" /\ pc' \in CapPcs
CapTriggers == pc = "wait" /\ adc.err = Nil /\ pc' = "resp"
CapAppendsFairly ==
    \/ <>[](pc # "trace")
    \/ []<><<Len(capture') > Len(capture)>>_vars

\* NewCapture with no bound on its iterations. The goroutine keeps running
\* (weak fairness of its steps), and no run of retries goes on for ever: a
\* wait that can trigger again and again eventually does, a trace read that
\* can yield measurements again and again eventually does (strong fairness
\* of the two steps).
SpecCaptureLive ==
    /\ CapInit /\ [][CapLiveNext]_vars
    /\ WF_pc(CapRuns)
    /\ SF_pc(CapTriggers)
    /\ CapAppendsFairly

-----------------------------------------------------------------------------
(* SpecFpga: one call of Fpga.Program, transfer by transfer, against a     *)
(* device that may refuse any transfer and answer any status.              *)

MaxChunks == 2
MaxFpgaPolls == 6

ReqFpgaStatus == 21
ReqFpgaProgram == 22
ProgramEnter == 160
ProgramArm == 161
ProgramExit == 162
MaxAttempts == 5

FpgaStatusVals == {0, 1, 2}

notFpga ==
    <<req, usbLog, memRes, adc, call, pc, capture, trace, numTraces, rxq, iter, result, fn>>

\* What Program leaves on the device and on the clock.
CtrlProgram(val, ok) == [kind |-> "ctrl", request |-> ReqFpgaProgram, val |-> val, ok |-> ok]
Sleep10ms == [kind |-> "sleep", request |-> 0, val |-> 10, ok |-> TRUE]
BulkChunk(k, ok) == [kind |-> "bulk", request |-> 0, val |-> k, ok |-> ok]
StatusPoll(r) ==
    [kind |-> "status", request |-> ReqFpgaStatus, val |-> IF r.ok THEN r.val ELSE 0, ok |-> r.ok]

\* return err
FpgaReturn(f, err) == [f EXCEPT !.pc = "done", !.err = err]

\* A variant that goes on after a refused program-control request.
ctrlProgramThenAnyway(f, val, ok, next) ==
    [f EXCEPT !.log = @ \o <<CtrlProgram(val, ok), Sleep10ms>>, !.pc = next]

\* if err = f.ctrlProgram(val); err != nil { return err }; time.Sleep(10ms)
ctrlProgramThen(f, val, ok, next) ==
    IF ~ok
    THEN FpgaReturn([f EXCEPT !.log = Append(@, CtrlProgram(val, ok))], "dev.Control failed")
    ELSE [f EXCEPT !.log = @ \o <<CtrlProgram(val, ok), Sleep10ms>>, !.pc = next]

\* status&1 == 1
IsProgrammed(r) == r.ok /\ r.val % 2 = 1

\* A variant of the loop body that sleeps and polls again after a poll that
\* reported the FPGA programmed.
PollBodyNoBreak(f, r) ==
    LET f1 == [f EXCEPT !.log = Append(@, StatusPoll(r)), !.ready = IsProgrammed(r)]
    IN  IF ~r.ok THEN FpgaReturn(f1, "ReqFpgaStatus failed")
        ELSE [f1 EXCEPT !.log = Append(@, Sleep10ms), !.attempts = @ - 1]

\* One turn of the loop: ready, err = f.IsProgrammed(); return on err, break
\* when ready, else sleep and attempts--.
PollBody(f, r) ==
    LET f1 == [f EXCEPT !.log = Append(@, StatusPoll(r)), !.ready = IsProgrammed(r)]
    IN  IF ~r.ok THEN FpgaReturn(f1, "ReqFpgaStatus failed")
        ELSE IF f1.ready THEN [f1 EXCEPT !.pc = "exit"]
        ELSE [f1 EXCEPT !.log = Append(@, Sleep10ms), !.attempts = @ - 1]

\* The number of status polls issued so far.
FpgaPolls(f) == Cardinality({i \in DOMAIN f.log : f.log[i].kind = "status"})

FpgaInit ==
    /\ fpga \in {[pc |-> "enter", log |-> <<>>, attempts |-> 0, ready |-> FALSE,
                  total |-> n, left |-> n, err |-> Nil] : n \in 0..MaxChunks}
    /\ fn = FnNone
    /\ req = [op |-> "none"] /\ usbLog = <<>> /\ memRes = MemIdle
    /\ AdcIdle
    /\ pc = "idle" /\ capture = <<>> /\ trace = TraceNone /\ numTraces = 0
    /\ rxq = <<>> /\ iter = IterNone /\ result = ResultNone

\* f.ctrlProgram(0xA0) and the first delay.
FpgaEnter ==
    /\ fpga.pc = "enter"
    /\ \E ok \in BOOLEAN : fpga' = ctrlProgramThen(fpga, ProgramEnter, ok, "arm")
    /\ UNCHANGED notFpga

\* f.ctrlProgram(0xA1) and the second delay.
FpgaArm ==
    /\ fpga.pc = "arm"
    /\ \E ok \in BOOLEAN : fpga' = ctrlProgramThen(fpga, ProgramArm, ok, "copy")
    /\ UNCHANGED notFpga

\* io.Copy(f.dev, bitstream), one buffer at a time: the reader is at its end,
\* or it fails, or it delivers a buffer that the device takes or refuses.
FpgaCopy ==
    /\ fpga.pc = "copy"
    /\ \E readOk \in BOOLEAN, writeOk \in BOOLEAN :
          fpga' =
            IF ~readOk THEN FpgaReturn(fpga, "Failed to download bitstream")
            ELSE IF fpga.left = 0 THEN [fpga EXCEPT !.pc = "poll"]
            ELSE LET f1 == [fpga EXCEPT
                              !.log = Append(@, BulkChunk(fpga.total - fpga.left + 1, writeOk)),
                              !.left = @ - 1]
                 IN  IF writeOk THEN f1
                     ELSE FpgaReturn(f1, "Failed to download bitstream")
    /\ UNCHANGED notFpga

\* for attempts := 0; attempts < 5; attempts-- { ... }: the counter goes
\* down from 0, so the loop condition holds at every turn (the int would wrap
\* around only after 2^63 turns, far beyond the polls followed here).
FpgaPoll ==
    /\ fpga.pc = "poll"
    /\ FpgaPolls(fpga) < MaxFpgaPolls
    /\ IF fpga.attempts < MaxAttempts
       THEN \E r \in Reads(FpgaStatusVals) : fpga' = PollBody(fpga, r)
       ELSE fpga' = [fpga EXCEPT !.pc = "exit"]
    /\ UNCHANGED notFpga

\* f.ctrlProgram(0xA2), then the result by ready.
FpgaExit ==
    /\ fpga.pc = "exit"
    /\ \E ok \in BOOLEAN :
          LET f1 == [fpga EXCEPT !.log = Append(@, CtrlProgram(ProgramExit, ok))]
          IN  fpga' = IF ~ok THEN FpgaReturn(f1, "dev.Control failed")
                      ELSE IF ~f1.ready THEN FpgaReturn(f1, "FPGA done pin failed to go high")
                      ELSE FpgaReturn(f1, Nil)
    /\ UNCHANGED notFpga

FpgaNext ==
    \/ FpgaEnter
    \/ FpgaArm
    \/ FpgaCopy
    \/ FpgaPoll
    \/ FpgaExit

SpecFpga == FpgaInit /\ [][FpgaNext]_vars

-----------------------------------------------------------------------------
(* SpecClk: calcClkGenMulDiv and SetClkGenOutputFreq on drawn frequencies. *)

\* Go's int is 64 bits wide and inpFreq*mul does not fit in 31: numbers of
\* that size are kept as two limbs, [h, l] standing for h * Limb + l.
Big(n) == [h |-> n \div Limb, l |-> n % Limb]
BigLess(a, b) == a.h < b.h \/ (a.h = b.h /\ a.l < b.l)
\* a - b for a >= b
BigSub(a, b) ==
    IF a.l >= b.l THEN [h |-> a.h - b.h, l |-> a.l - b.l]
    ELSE [h |-> a.h - b.h - 1, l |-> a.l + Limb - b.l]
BigAbsDiff(a, b) == IF BigLess(a, b) THEN BigSub(b, a) ELSE BigSub(a, b)

\* (inpFreq * mul) / div, the integer division of Go, for mul <= 256 and
\* div <= 256: with inpFreq = q*div + r it is q*mul + (r*mul)/div.
MulDivBig(inpFreq, mul, div) ==
    LET q == inpFreq \div div
        r == inpFreq % div
        low == (q % Limb) * mul + (r * mul) \div div
    IN  [h |-> (q \div Limb) * mul + low \div Limb, l |-> low % Limb]

\* math.Abs(float64(freq - ((inpFreq * mul) / div)))
ClkErr(freq, inpFreq, mul, div) == BigAbsDiff(Big(freq), MulDivBig(inpFreq, mul, div))

MulMin == 2
MulEnd == 257
DivMin == 1
DivCap == 256
LimitFreq == 52000000
HalfMHz == 500000

\* if inpFreq < 52e6 { maxDiv = int(inpFreq / 0.5E6) } else { maxDiv = 256 }
MaxDivOf(inpFreq) == IF inpFreq < LimitFreq THEN inpFreq \div HalfMHz ELSE DivCap

\* lowError := 1e99; var bestMul, bestDiv int
ClkStart == [bestMul |-> 0, bestDiv |-> 0, found |-> FALSE, lowError |-> Big(0)]

\* A variant of the comparison in which a later pair of equal error wins.
ClkTryLastWins(st, freq, inpFreq, mul, div) ==
    LET err == ClkErr(freq, inpFreq, mul, div)
    IN  IF ~st.found \/ ~BigLess(st.lowError, err)
        THEN [bestMul |-> mul, bestDiv |-> div, found |-> TRUE, lowError |-> err]
        ELSE st

\* if err < lowError { lowError = err; bestMul, bestDiv = mul, div }
ClkTry(st, freq, inpFreq, mul, div) ==
    LET err == ClkErr(freq, inpFreq, mul, div)
    IN  IF ~st.found \/ BigLess(err, st.lowError)
        THEN [bestMul |-> mul, bestDiv |-> div, found |-> TRUE, lowError |-> err]
        ELSE st

\* for div := lo; div <= hi; div++ { ... }: the turns of the inner loop
\* from lo to hi in ascending order.  The range is halved and the left half
\* is computed first (the CASE guard, always true, asks for its value), so
\* that the nesting of the evaluation stays shallow; the order of the turns
\* is the loop's.
RECURSIVE ClkDivLoop(_, _, _, _, _, _)
ClkDivLoop(st, freq, inpFreq, mul, lo, hi) ==
    IF lo > hi THEN st
    ELSE IF lo = hi THEN ClkTry(st, freq, inpFreq, mul, lo)
    ELSE LET mid == (lo + hi) \div 2
             left == ClkDivLoop(st, freq, inpFreq, mul, lo, mid)
         IN  CASE left.found \in BOOLEAN ->
                    ClkDivLoop(left, freq, inpFreq, mul, mid + 1, hi)

\* for mul := lo; mul <= hi; mul++ { for div := 1; div < maxDiv; div++ }
RECURSIVE ClkMulLoop(_, _, _, _, _, _)
ClkMulLoop(st, freq, inpFreq, lo, hi, maxDiv) ==
    IF lo > hi THEN st
    ELSE IF lo = hi THEN ClkDivLoop(st, freq, inpFreq, lo, DivMin, maxDiv - 1)
    ELSE LET mid == (lo + hi) \div 2
             left == ClkMulLoop(st, freq, inpFreq, lo, mid, maxDiv)
         IN  CASE left.found \in BOOLEAN ->
                    ClkMulLoop(left, freq, inpFreq, mid + 1, hi, maxDiv)

calcClkGenMulDiv(freq, inpFreq) ==
    LET st == ClkMulLoop(ClkStart, freq, inpFreq, MulMin, MulEnd - 1, MaxDivOf(inpFreq))
    IN  [mul |-> st.bestMul, div |-> st.bestDiv]

\* uint8(n) - 1 in uint8 arithmetic
Uint8Minus1(n) == ((n % 256) + 255) % 256

\* setClkGenMul: no-op with the error set; mul < 2 sets the error; else the
\* register is read, Mul is set to uint8(mul) - 1 and written back (ok tells
\* whether the device takes the transfers).
setClkGenMul(r, mul, ok) ==
    IF r.err # Nil THEN r
    ELSE IF mul < 2 THEN [r EXCEPT !.err = "mul out of range"]
    ELSE IF ~ok THEN [r EXCEPT !.err = "Mem failed"]
    ELSE [r EXCEPT !.mulReg = <<Uint8Minus1(mul)>>]

\* setClkGenDiv: the same for Div, with div < 1 as the range test.
setClkGenDiv(r, div, ok) ==
    IF r.err # Nil THEN r
    ELSE IF div < 1 THEN [r EXCEPT !.err = "div out of range"]
    ELSE IF ~ok THEN [r EXCEPT !.err = "Mem failed"]
    ELSE [r EXCEPT !.divReg = <<Uint8Minus1(div)>>]

\* SetClkGenOutputFreq from the point where inpFreq is known.
SetClkGenOutputFreq(r, okMul, okDiv) ==
    LET md == calcClkGenMulDiv(r.freq, r.inpFreq)
        r1 == [r EXCEPT !.mul = md.mul, !.div = md.div]
    IN  setClkGenDiv(setClkGenMul(r1, md.mul, okMul), md.div, okDiv)

\* Target and input frequencies: none, below and at the 0.5 MHz and 1 MHz
\* steps, the CW-Lite values, and both sides of the 52 MHz limit.
FreqArgs == {0, 3000000, 7370000, 10000000, 29480000, 300000000}
LowInpFreqArgs == {0, 499999, 500000, 999999, 1000000, 1500000, 2000000, 7370000, 10000000}
HighInpFreqArgs == {51999999, 52000000, 96000000}
ClkArgs ==
    (FreqArgs \X LowInpFreqArgs) \cup ({7370000} \X HighInpFreqArgs)

ClkCallOf(name, a) ==
    [name |-> name, freq |-> a[1], inpFreq |-> a[2], mul |-> 0, div |-> 0,
     err |-> Nil, mulReg |-> <<>>, divReg |-> <<>>]

notFn == <<req, usbLog, memRes, adc, call, pc, capture, trace, numTraces, rxq, iter, result, fpga>>

ClkInit ==
    /\ fn \in {ClkCallOf("args", a) : a \in ClkArgs}
    /\ fpga = FpgaNone
    /\ req = [op |-> "none"] /\ usbLog = <<>> /\ memRes = MemIdle
    /\ AdcIdle
    /\ pc = "idle" /\ capture = <<>> /\ trace = TraceNone /\ numTraces = 0
    /\ rxq = <<>> /\ iter = IterNone /\ result = ResultNone

\* mul, div := calcClkGenMulDiv(freq, inpFreq)
ClkCalc ==
    /\ fn.name = "args"
    /\ LET md == calcClkGenMulDiv(fn.freq, fn.inpFreq)
       IN  fn' = [fn EXCEPT !.name = "calcClkGenMulDiv", !.mul = md.mul, !.div = md.div]
    /\ UNCHANGED notFn

\* c.SetClkGenOutputFreq(freq) with no error set on entry.
ClkSetOutputFreq ==
    /\ fn.name = "args"
    /\ \E ok \in {<<TRUE, TRUE>>, <<FALSE, TRUE>>, <<TRUE, FALSE>>} :
          fn' = SetClkGenOutputFreq([fn EXCEPT !.name = "SetClkGenOutputFreq"], ok[1], ok[2])
    /\ UNCHANGED notFn

ClkNext ==
    \/ ClkCalc
    \/ ClkSetOutputFreq

SpecClk == ClkInit /\ [][ClkNext]_vars

-----------------------------------------------------------------------------
(* ProcessTraceData on its own: a raw buffer is decoded (SpecDecode). *)

\* Sample words: every trigger tag with two choices of the three fields.
FieldTriples == {<<700, 600, 500>>, <<1, 2, 1023>>}
DecodeWords == {WordBytes(t, f[1], f[2], f[3]) : t \in 0..3, f \in FieldTriples}

RECURSIVE DecodeWordSeqs(_)
DecodeWordSeqs(k) ==
    IF k = 0 THEN {<<>>}
    ELSE {w \o s : w \in DecodeWords, s \in DecodeWordSeqs(k - 1)}

\* Buffers handed to ProcessTraceData: empty, or a first byte that is the sync
\* byte or not, up to MaxWords sample words, and the bytes after the last
\* word: three of them (a length that is a multiple of 4), one or none.
DecodeBufs ==
    {<<>>} \cup
    {<<b>> \o ws \o fill :
        b \in {SyncByte, 0},
        ws \in UNION {DecodeWordSeqs(k) : k \in 0..MaxWords},
        fill \in {<<0, 0, 0>>, <<0>>, <<>>}}

DecodeInit ==
    /\ fn \in {[name |-> "data", data |-> d, ret |-> <<>>, err |-> Nil] : d \in DecodeBufs}
    /\ fpga = FpgaNone
    /\ req = [op |-> "none"] /\ usbLog = <<>> /\ memRes = MemIdle
    /\ AdcIdle
    /\ pc = "idle" /\ capture = <<>> /\ trace = TraceNone /\ numTraces = 0
    /\ rxq = <<>> /\ iter = IterNone /\ result = ResultNone

\* measurements := c.ProcessTraceData(data)
DecodeApply ==
    /\ fn.name = "data"
    /\ LET x == ProcessTraceData(Enter, fn.data)
       IN  fn' = [fn EXCEPT !.name = "ProcessTraceData", !.ret = x.ret, !.err = x.c.err]
    /\ UNCHANGED notFn

DecodeNext == DecodeApply

SpecDecode == DecodeInit /\ [][DecodeNext]_vars

-----------------------------------------------------------------------------
(* Usart.Read: bytes are fetched from the device until len(p) of them have *)
(* arrived, a transfer fails, or the timer fires (SpecUsartRead).           *)

\* Everything but fn is at rest.
RestIdle ==
    /\ fpga = FpgaNone
    /\ req = [op |-> "none"] /\ usbLog = <<>> /\ memRes = MemIdle
    /\ AdcIdle
    /\ pc = "idle" /\ capture = <<>> /\ trace = TraceNone /\ numTraces = 0
    /\ rxq = <<>> /\ iter = IterNone /\ result = ResultNone

\* Byte counts the device may report as waiting.
WaitingVals == 0..(MaxReadLen + 1)

\* The device transfers and the delays of a call, in order.
Logged(u, e) == [u EXCEPT !.log = Append(@, e)]
InWaitings(u) == Cardinality({i \in DOMAIN u.log : u.log[i].op = "inWaiting"})

\* return from the goroutine; wg.Wait(); return n, err
UsartReturn(u) == [u EXCEPT !.pc = "done"]

\* The default branch of the select: one turn of the loop.  The device
\* reports w bytes waiting (okW: the transfer succeeds) and okR tells whether
\* the data transfer succeeds.
ReadTurn(u, w, okW, okR) ==
    LET u1 == Logged(u, [op |-> "inWaiting", ok |-> okW, len |-> 0])
    IN  IF ~okW THEN UsartReturn([u1 EXCEPT !.err = "inWaiting failed"])
        ELSE
        LET toRead == IF u.n + w > u.len THEN u.len - u.n ELSE w
            got == [u1 EXCEPT !.err = Nil]     \* toRead, err = u.inWaiting()
        IN  IF toRead = 0
            THEN Logged(got, [op |-> "sleep", ok |-> TRUE, len |-> 0])
            ELSE
            LET u2 == Logged(got, [op |-> "dataRead", ok |-> okR, len |-> toRead])
            IN  IF ~okR THEN UsartReturn([u2 EXCEPT !.err = "dataRead failed"])
                ELSE LET u3 == [u2 EXCEPT !.n = @ + toRead]
                     IN  IF u3.n = u3.len THEN UsartReturn(u3) ELSE u3

UsartReadInit ==
    /\ fn \in {[name |-> "Usart.Read", pc |-> "select", len |-> l, n |-> 0,
                err |-> Nil, log |-> <<>>, timedOut |-> FALSE] : l \in 0..MaxReadLen}
    /\ RestIdle

\* case <-timedOut.C: return
UsartReadTimerFires ==
    /\ fn.name = "Usart.Read" /\ fn.pc = "select"
    /\ fn' = UsartReturn([fn EXCEPT !.timedOut = TRUE])
    /\ UNCHANGED notFn

\* default: one turn of the loop
UsartReadPoll ==
    /\ fn.name = "Usart.Read" /\ fn.pc = "select"
    /\ InWaitings(fn) < MaxReadPolls
    /\ \E w \in WaitingVals, okW \in BOOLEAN, okR \in BOOLEAN :
          fn' = ReadTurn(fn, w, okW, okR)
    /\ UNCHANGED notFn

UsartReadNext ==
    \/ UsartReadTimerFires
    \/ UsartReadPoll

SpecUsartRead == UsartReadInit /\ [][UsartReadNext]_vars

-----------------------------------------------------------------------------
(* UsbDevice: a device as OpenCwLiteUsbDevice leaves it, used for transfers *)
(* and closed any number of times (SpecUsbClose).                           *)

\* The fields of a UsbDevice: TRUE for a field that is not nil.  The log holds
\* the transfers made and the resources released, closes counts the calls of
\* Close and ret is what the last one returned.
UsbDeviceOf(ctx, dev, intf) ==
    [name |-> "UsbDevice", ctx |-> ctx, dev |-> dev, intf |-> intf, intf_done |-> intf,
     log |-> <<>>, closes |-> 0, ret |-> "none"]

\* The device where OpenCwLiteUsbDevice calls Close on it or returns it: the
\* context alone, the context and the device handle, or all four resources.
UsbStages ==
    {UsbDeviceOf(TRUE, FALSE, FALSE), UsbDeviceOf(TRUE, TRUE, FALSE), UsbDeviceOf(TRUE, TRUE, TRUE)}

UsbOps == {"Read", "Write", "ControlIn", "ControlOut"}

\* One guarded release of Close: if field != nil { release; field = nil }.
Release(d, held, what, cleared) ==
    IF held THEN [cleared EXCEPT !.log = Append(@, what)] ELSE d

\* A variant of Close that leaves d.intf set.
CloseKeepsIntf(d) ==
    LET d1 == Release(d, d.intf_done, "intf_done", [d EXCEPT !.intf_done = FALSE])
        d2 == Release(d1, d1.intf, "intf.Close", d1)
        d3 == Release(d2, d2.dev, "dev.Close", [d2 EXCEPT !.dev = FALSE])
        d4 == Release(d3, d3.ctx, "ctx.Close", [d3 EXCEPT !.ctx = FALSE])
    IN  [d4 EXCEPT !.closes = @ + 1, !.ret = Nil]

\* UsbDevice.Close
Close(d) ==
    LET d1 == Release(d, d.intf_done, "intf_done", [d EXCEPT !.intf_done = FALSE])
        d2 == Release(d1, d1.intf, "intf.Close", [d1 EXCEPT !.intf = FALSE])
        d3 == Release(d2, d2.dev, "dev.Close", [d2 EXCEPT !.dev = FALSE])
        d4 == Release(d3, d3.ctx, "ctx.Close", [d3 EXCEPT !.ctx = FALSE])
    IN  [d4 EXCEPT !.closes = @ + 1, !.ret = Nil]

UsbInit ==
    /\ fn \in UsbStages
    /\ RestIdle

\* A bulk or control transfer on the open device, succeeding or not.
UsbUse ==
    /\ fn.name = "UsbDevice" /\ fn.intf /\ fn.closes = 0
    /\ Len(fn.log) < MaxUsbOps
    /\ \E op \in UsbOps, ok \in BOOLEAN :
          fn' = [fn EXCEPT !.log = Append(@, IF ok THEN op ELSE op \o " failed")]
    /\ UNCHANGED notFn

\* d.Close()
UsbClose ==
    /\ fn.name = "UsbDevice"
    /\ fn.closes < MaxCloses
    /\ fn' = Close(fn)
    /\ UNCHANGED notFn

UsbNext ==
    \/ UsbUse
    \/ UsbClose

SpecUsbClose == UsbInit /\ [][UsbNext]_vars

\* OpenCwLiteUsbDevice, statement by statement, on a bus that may refuse any
\* step (SpecUsbOpen); a device that was returned is then used and closed.
cwliteMjVersion == 0
cwliteMnVersion == 11
FwMajors == {0, 1}
FwMinors == {10, 11}

\* d := &UsbDevice{}: no field set, nothing returned yet.
UsbOpening ==
    [name |-> "OpenCwLiteUsbDevice", pc |-> "ctx", err |-> Nil,
     ctx |-> FALSE, dev |-> FALSE, intf |-> FALSE, intf_done |-> FALSE,
     log |-> <<>>, closes |-> 0, ret |-> "none"]

\* return nil, fmt.Errorf(...)
UsbOpenFails(d, msg) == [d EXCEPT !.pc = "done", !.err = msg]
\* return d, err
UsbOpenReturns(d) == [d EXCEPT !.pc = "done", !.name = "UsbDevice"]

UsbOpenInit ==
    /\ fn = UsbOpening
    /\ RestIdle

\* d.ctx = gousb.NewContext()
UsbOpenContext ==
    /\ fn.name = "OpenCwLiteUsbDevice" /\ fn.pc = "ctx"
    /\ fn' = [fn EXCEPT !.ctx = TRUE, !.pc = "open"]
    /\ UNCHANGED notFn

\* d.dev, err = d.ctx.OpenDeviceWithVIDPID(...): no device and no error, an
\* error with or without a device handle, or the device.
UsbOpenDevice ==
    /\ fn.name = "OpenCwLiteUsbDevice" /\ fn.pc = "open"
    /\ \E dev \in BOOLEAN, failed \in BOOLEAN :
          LET d == [fn EXCEPT !.dev = dev]
          IN  fn' = IF ~dev /\ ~failed THEN UsbOpenFails(d, "CWLite device not found")
                    ELSE IF failed THEN UsbOpenFails(Close(d), "Opening CWLITE device")
                    ELSE [d EXCEPT !.pc = "intf"]
    /\ UNCHANGED notFn

\* d.intf, d.intf_done, err = d.dev.DefaultInterface()
UsbOpenInterface ==
    /\ fn.name = "OpenCwLiteUsbDevice" /\ fn.pc = "intf"
    /\ \E ok \in BOOLEAN :
          fn' = IF ok THEN [fn EXCEPT !.intf = TRUE, !.intf_done = TRUE, !.pc = "ep_out"]
                ELSE UsbOpenFails(Close(fn), "Claming default interface")
    /\ UNCHANGED notFn

\* d.ep_out, err = d.intf.OutEndpoint(cwliteOutEp)
UsbOpenOutEndpoint ==
    /\ fn.name = "OpenCwLiteUsbDevice" /\ fn.pc = "ep_out"
    /\ \E ok \in BOOLEAN :
          fn' = IF ok THEN [fn EXCEPT !.pc = "ep_in"]
                ELSE UsbOpenFails(Close(fn), "Opening output interface")
    /\ UNCHANGED notFn

\* d.ep_in, err = d.intf.InEndpoint(cwliteInEp)
UsbOpenInEndpoint ==
    /\ fn.name = "OpenCwLiteUsbDevice" /\ fn.pc = "ep_in"
    /\ \E ok \in BOOLEAN :
          fn' = IF ok THEN [fn EXCEPT !.pc = "ver"]
                ELSE UsbOpenFails(Close(fn), "Opening input interface")
    /\ UNCHANGED notFn

\* The firmware version is read over the control endpoint and compared with
\* the supported pair.
UsbOpenFwVersion ==
    /\ fn.name = "OpenCwLiteUsbDevice" /\ fn.pc = "ver"
    /\ \E ok \in BOOLEAN, major \in FwMajors, minor \in FwMinors :
          LET d == [fn EXCEPT !.log = Append(@, IF ok THEN "ControlIn" ELSE "ControlIn failed")]
          IN  fn' = IF ~ok THEN UsbOpenFails(d, "Failed reading FW version")
                    ELSE IF major # cwliteMjVersion \/ minor # cwliteMnVersion
                    THEN UsbOpenFails(d, "Unexpected FW version")
                    ELSE UsbOpenReturns(d)
    /\ UNCHANGED notFn

\* The caller's transfers on the device it was given.
UsbOpenedUse ==
    /\ fn.name = "UsbDevice" /\ fn.intf /\ fn.closes = 0
    /\ Len(fn.log) < MaxUsbOps + 1
    /\ \E op \in UsbOps, ok \in BOOLEAN :
          fn' = [fn EXCEPT !.log = Append(@, IF ok THEN op ELSE op \o " failed")]
    /\ UNCHANGED notFn

UsbOpenNext ==
    \/ UsbOpenContext
    \/ UsbOpenDevice
    \/ UsbOpenInterface
    \/ UsbOpenOutEndpoint
    \/ UsbOpenInEndpoint
    \/ UsbOpenFwVersion
    \/ UsbOpenedUse
    \/ UsbClose

SpecUsbOpen == UsbOpenInit /\ [][UsbOpenNext]_vars

-----------------------------------------------------------------------------
(* Capture.SaveIo and LoadCaptureIo: a Capture is written as gzipped JSON   *)
(* and read back (SpecSaveLoad).                                            *)

\* Go values.  A slice is nil or holds elements; a float64 is a number, kept
\* as a sign and a magnitude in units of 1/1024 (the grain of the decoded
\* samples), or NaN, or an infinity.
NilSlice == [nil |-> TRUE, e |-> <<>>]
Slice(elems) == [nil |-> FALSE, e |-> elems]
Num(neg, k) == [class |-> "num", neg |-> neg, k |-> k]
NaN == [class |-> "NaN", neg |-> FALSE, k |-> 0]
Inf(neg) == [class |-> "Inf", neg |-> neg, k |-> 0]
Grain == 1024

\* JSON values.
JNull == [t |-> "null", v |-> <<>>]
JString(chars) == [t |-> "string", v |-> chars]
JNumber(text) == [t |-> "number", v |-> text]
JArray(elems) == [t |-> "array", v |-> elems]
JObject(fields) == [t |-> "object", v |-> fields]

\* base64.StdEncoding: three bytes give four characters, kept as their
\* indices 0..63 in the alphabet; Pad stands for '='.
Pad == 64
RECURSIVE B64Encode(_)
B64Encode(b) ==
    IF Len(b) = 0 THEN <<>>
    ELSE IF Len(b) = 1
    THEN <<b[1] \div 4, (b[1] % 4) * 16, Pad, Pad>>
    ELSE IF Len(b) = 2
    THEN <<b[1] \div 4, (b[1] % 4) * 16 + b[2] \div 16, (b[2] % 16) * 4, Pad>>
    ELSE <<b[1] \div 4, (b[1] % 4) * 16 + b[2] \div 16,
           (b[2] % 16) * 4 + b[3] \div 64, b[3] % 64>>
         \o B64Encode(SubSeq(b, 4, Len(b)))

RECURSIVE B64Decode(_)
B64Decode(c) ==
    IF Len(c) < 4 THEN <<>>
    ELSE (IF c[3] = Pad
          THEN <<c[1] * 4 + c[2] \div 16>>
          ELSE IF c[4] = Pad
          THEN <<c[1] * 4 + c[2] \div 16, (c[2] % 16) * 16 + c[3] \div 4>>
          ELSE <<c[1] * 4 + c[2] \div 16, (c[2] % 16) * 16 + c[3] \div 4,
                 (c[3] % 4) * 64 + c[4]>>)
         \o B64Decode(SubSeq(c, 5, Len(c)))

\* Decimal text.
DigitChars == <<"0", "1", "2", "3", "4", "5", "6", "7", "8", "9">>
DigitChar(d) == DigitChars[d + 1]
DigitVal(ch) == (CHOOSE i \in DOMAIN DigitChars : DigitChars[i] = ch) - 1
Ten == 10

RECURSIVE IntDigits(_)
IntDigits(n) ==
    IF n < Ten THEN <<DigitChar(n)>> ELSE Append(IntDigits(n \div Ten), DigitChar(n % Ten))

\* The digits after the point of r/1024, 0 < r < 1024, to the last one that is
\* not zero.
RECURSIVE FracDigits(_)
FracDigits(r) ==
    IF r = 0 THEN <<>>
    ELSE <<DigitChar((r * Ten) \div Grain)>> \o FracDigits((r * Ten) % Grain)

\* A variant of FormatFloat that writes one digit after the point at most.
FormatFloatShort(f) ==
    (IF f.neg THEN <<"-">> ELSE <<>>)
    \o IntDigits(f.k \div Grain)
    \o (IF f.k % Grain = 0 THEN <<>>
        ELSE <<".">> \o SubSeq(FracDigits(f.k % Grain), 1, 1))

\* The number as encoding/json writes it: the shortest decimal text that
\* reads back as the same float64, without exponent for these magnitudes.
FormatFloat(f) ==
    (IF f.neg THEN <<"-">> ELSE <<>>)
    \o IntDigits(f.k \div Grain)
    \o (IF f.k % Grain = 0 THEN <<>> ELSE <<".">> \o FracDigits(f.k % Grain))

RECURSIVE IntVal(_)
IntVal(text) ==
    IF text = <<>> THEN 0
    ELSE IntVal(SubSeq(text, 1, Len(text) - 1)) * Ten + DigitVal(text[Len(text)])

\* 1024 times the fraction 0.d1 d2 ... dn, from the last digit back.
RECURSIVE FracVal(_)
FracVal(text) ==
    IF text = <<>> THEN 0
    ELSE (DigitVal(text[1]) * Grain + FracVal(Tail(text))) \div Ten

\* strconv.ParseFloat on a JSON number.
ParseFloat(text) ==
    LET neg == text # <<>> /\ text[1] = "-"
        body == IF neg THEN Tail(text) ELSE text
        dot == IF \E i \in DOMAIN body : body[i] = "."
               THEN CHOOSE i \in DOMAIN body : body[i] = "."
               ELSE Len(body) + 1
    IN  Num(neg, IntVal(SubSeq(body, 1, dot - 1)) * Grain
                  + FracVal(SubSeq(body, dot + 1, Len(body))))

\* json.Marshal of the fields of a Trace: a nil slice is null, a []byte is a
\* base64 string, a []float64 an array of numbers.
EncodeBytes(s) == IF s.nil THEN JNull ELSE JString(B64Encode(s.e))
Finite(s) == \A i \in DOMAIN s.e : s.e[i].class = "num"
EncodeFloats(s) ==
    IF s.nil THEN JNull ELSE JArray([i \in DOMAIN s.e |-> JNumber(FormatFloat(s.e[i]))])
EncodeTrace(tr) ==
    JObject([k |-> EncodeBytes(tr.Key), pt |-> EncodeBytes(tr.Pt),
             ct |-> EncodeBytes(tr.Ct), pm |-> EncodeFloats(tr.PowerMeasurements)])
EncodeCapture(c) ==
    IF c.nil THEN JNull ELSE JArray([i \in DOMAIN c.e |-> EncodeTrace(c.e[i])])
\* NaN and the infinities have no JSON text: Marshal fails on them.
Encodable(c) == \A i \in DOMAIN c.e : Finite(c.e[i].PowerMeasurements)

\* json.Unmarshal into zero values: null leaves the slice nil.
DecodeBytes(j) == IF j.t = "null" THEN NilSlice ELSE Slice(B64Decode(j.v))
DecodeFloats(j) ==
    IF j.t = "null" THEN NilSlice ELSE Slice([i \in DOMAIN j.v |-> ParseFloat(j.v[i].v)])
DecodeTrace(j) ==
    [Key |-> DecodeBytes(j.v.k), Pt |-> DecodeBytes(j.v.pt),
     Ct |-> DecodeBytes(j.v.ct), PowerMeasurements |-> DecodeFloats(j.v.pm)]
DecodeCapture(j) ==
    IF j.t = "null" THEN NilSlice ELSE Slice([i \in DOMAIN j.v |-> DecodeTrace(j.v[i])])

\* c.SaveIo(dst): what dst holds afterwards, and the error.  The gzip stream
\* is one member around the JSON text; nothing is written when the encoder
\* fails.
SaveIo(c) ==
    IF ~Encodable(c) THEN [out |-> <<>>, err |-> "JSON encoder failed"]
    ELSE [out |-> <<[gzip |-> EncodeCapture(c)]>>, err |-> Nil]

\* LoadCaptureIo(src)
LoadCaptureIo(src) ==
    IF src = <<>> THEN [capture |-> NilSlice, err |-> "gzip NewReader failed"]
    ELSE [capture |-> DecodeCapture(src[1].gzip), err |-> Nil]

\* The captures saved: nil, empty, one trace, and up to MaxSaved traces taken
\* from a few.
SavedBytes ==
    {NilSlice, Slice(<<>>), Slice(<<1>>), Slice(<<2, 255>>), Slice(<<3, 0, 128>>),
     Slice(<<250, 251, 252, 253>>)}
SavedFloats ==
    {NilSlice, Slice(<<>>),
     Slice(<<Num(FALSE, 4608), Num(TRUE, 512)>>),
     Slice(<<Num(FALSE, 1), Num(FALSE, 0), Num(TRUE, 0)>>),
     Slice(<<Num(TRUE, 511), Num(FALSE, 10240), Num(FALSE, 1023)>>),
     Slice(<<NaN>>),
     Slice(<<Num(FALSE, 4608), Inf(FALSE)>>),
     Slice(<<Inf(TRUE)>>)}
SavedTraces ==
    {[Key |-> k, Pt |-> pt, Ct |-> Slice(<<3>>), PowerMeasurements |-> pm] :
        k \in SavedBytes, pt \in {NilSlice, Slice(<<2>>)}, pm \in SavedFloats}
FewTraces ==
    {[Key |-> Slice(<<1>>), Pt |-> Slice(<<2>>), Ct |-> Slice(<<3>>), PowerMeasurements |-> pm] :
        pm \in {Slice(<<Num(FALSE, 4608)>>), Slice(<<>>), Slice(<<NaN>>)}}
RECURSIVE TraceSeqs(_)
TraceSeqs(n) ==
    IF n = 0 THEN {<<>>}
    ELSE {Append(ts, tr) : ts \in TraceSeqs(n - 1), tr \in FewTraces}
SavedCaptures ==
    {NilSlice, Slice(<<>>)}
    \cup {Slice(<<tr>>) : tr \in SavedTraces}
    \cup {Slice(ts) : ts \in UNION {TraceSeqs(n) : n \in 2..MaxSaved}}

SaveLoadInit ==
    /\ fn \in {[name |-> "capture", c |-> c, out |-> <<>>, saveErr |-> Nil,
                loaded |-> NilSlice, loadErr |-> Nil] : c \in SavedCaptures}
    /\ RestIdle

\* err := c.SaveIo(&buf)
SaveLoadSave ==
    /\ fn.name = "capture"
    /\ LET r == SaveIo(fn.c)
       IN  fn' = [fn EXCEPT !.name = "SaveIo", !.out = r.out, !.saveErr = r.err]
    /\ UNCHANGED notFn

\* c2, err := LoadCaptureIo(bytes.NewReader(buf.Bytes()))
SaveLoadLoad ==
    /\ fn.name = "SaveIo"
    /\ LET r == LoadCaptureIo(fn.out)
       IN  fn' = [fn EXCEPT !.name = "LoadCaptureIo", !.loaded = r.capture, !.loadErr = r.err]
    /\ UNCHANGED notFn

SaveLoadNext ==
    \/ SaveLoadSave
    \/ SaveLoadLoad

SpecSaveLoad == SaveLoadInit /\ [][SaveLoadNext]_vars

-----------------------------------------------------------------------------
(* ProgramDevice: erase, write, read back, compare (SpecProgram).           *)

\* Firmware bytes and what the flash may hold.
FwBytes == {170, 187}
RECURSIVE FwSeqs(_)
FwSeqs(n) ==
    IF n = 0 THEN {<<>>}
    ELSE FwSeqs(n - 1) \cup {Append(d, b) : d \in {x \in FwSeqs(n - 1) : Len(x) = n - 1}, b \in FwBytes}
Firmwares == FwSeqs(MaxFwLen)

\* A call on the programmer, with its outcome.
ProgCall(op, ok) == [op |-> op, ok |-> ok]
ProgDid(f, op, ok) == [f EXCEPT !.log = Append(@, ProgCall(op, ok))]
\* return fmt.Errorf(msg + ": %v", err)
ProgFails(f, msg, cause) == [f EXCEPT !.pc = "done", !.err = <<msg, cause>>]

\* A variant of the comparison that accepts any read-back.
VerifiedAlways(data, mem) == TRUE

\* bytes.Equal(firmware.Data, mem)
Verified(data, mem) == data = mem

\* What r.Read(mem) leaves in mem, a buffer of len(firmware.Data) zero bytes:
\* the first n bytes of the flash contents.
ReadInto(len, flash, n) == [i \in 1..len |-> IF i <= n /\ i <= Len(flash) THEN flash[i] ELSE 0]

ProgramInit ==
    /\ fn \in {[name |-> "ProgramDevice", pc |-> "erase", data |-> d, flash |-> <<>>,
                mem |-> <<>>, log |-> <<>>, err |-> <<>>] : d \in Firmwares}
    /\ RestIdle

\* prog.Erase()
ProgramErase ==
    /\ fn.name = "ProgramDevice" /\ fn.pc = "erase"
    /\ \E ok \in BOOLEAN :
          LET f == ProgDid(fn, "Erase", ok)
          IN  fn' = IF ok THEN [f EXCEPT !.pc = "write"]
                    ELSE ProgFails(f, "Failed to erase chip", "Erase")
    /\ UNCHANGED notFn

\* w := prog.NewMemoryWriter(firmware.Address); w.Write(firmware.Data): the
\* flash takes the data, or other bytes, or the write reports an error.
ProgramWrite ==
    /\ fn.name = "ProgramDevice" /\ fn.pc = "write"
    /\ \E ok \in BOOLEAN, stored \in Firmwares :
          LET f == ProgDid(ProgDid(fn, "NewMemoryWriter", TRUE), "Write", ok)
          IN  fn' = IF ok THEN [f EXCEPT !.pc = "read", !.flash = stored]
                    ELSE ProgFails([f EXCEPT !.flash = stored], "Failed to write to flash", "Write")
    /\ UNCHANGED notFn

\* r := prog.NewMemoryReader(firmware.Address); r.Read(mem); the comparison
\* and the return.
ProgramReadBack ==
    /\ fn.name = "ProgramDevice" /\ fn.pc = "read"
    /\ \E ok \in BOOLEAN, n \in 0..Len(fn.data) :
          LET f == [ProgDid(ProgDid(fn, "NewMemoryReader", TRUE), "Read", ok)
                       EXCEPT !.mem = ReadInto(Len(fn.data), fn.flash, n)]
          IN  fn' = IF ~ok THEN ProgFails(f, "Failed to read flash contents", "Read")
                    ELSE IF ~Verified(f.data, f.mem)
                    THEN ProgFails(f, "Data verification failed", "none")
                    ELSE [f EXCEPT !.pc = "done"]
    /\ UNCHANGED notFn

ProgramNext ==
    \/ ProgramErase
    \/ ProgramWrite
    \/ ProgramReadBack

SpecProgram == ProgramInit /\ [][ProgramNext]_vars

-----------------------------------------------------------------------------
(* NewSimpleSerial: the target is flushed and asked for its version         *)
(* (SpecSerial).                                                            *)

AckByte == 122      \* 'z'
VerLen == 4
\* Bytes the version read may leave in the 4-byte buffer: zero (nothing
\* read), 'z', '1'.
ResBytes == {0, AckByte, 49}
ClearCmd == "xxxxxxxxxxxxxxxxxxx\n"
VerCmd == "v\n"

\* A call on the Usart: its name, what is written or how many bytes are
\* asked for, and whether it returns without error.
SerCall(op, arg, ok) == [op |-> op, arg |-> arg, ok |-> ok]
SerDid(f, op, arg, ok) == [f EXCEPT !.log = Append(@, SerCall(op, arg, ok))]
\* return nil, err
SerFails(f, err) == [f EXCEPT !.pc = "done", !.err = err]
\* The step went well and the next one follows, or its error is returned.
SerThen(f, ok, next, err) == IF ok THEN [f EXCEPT !.pc = next] ELSE SerFails(f, err)

\* A variant of the version test that takes any answer.
VersionOkAlways(res) == TRUE

\* res[0] == 'z'
VersionOk(res) == res[1] = AckByte

SerialInit ==
    /\ fn = [name |-> "NewSimpleSerial", pc |-> "clear", log |-> <<>>, err |-> Nil,
             res |-> [i \in 1..VerLen |-> 0], serial |-> FALSE]
    /\ RestIdle

\* flush(): s.usart.Write(clear.Bytes())
SerialClear ==
    /\ fn.name = "NewSimpleSerial" /\ fn.pc = "clear"
    /\ \E ok \in BOOLEAN :
          fn' = SerThen(SerDid(fn, "Write", ClearCmd, ok), ok, "flush",
                        "Failed to write flush command")
    /\ UNCHANGED notFn

\* flush(): the delay and s.usart.Flush()
SerialFlush ==
    /\ fn.name = "NewSimpleSerial" /\ fn.pc = "flush"
    /\ \E ok \in BOOLEAN :
          fn' = SerThen(SerDid(fn, "Flush", "", ok), ok, "flush2",
                        "Failed to flush read buffer")
    /\ UNCHANGED notFn

\* checkVersion(): s.usart.Flush()
SerialFlushAgain ==
    /\ fn.name = "NewSimpleSerial" /\ fn.pc = "flush2"
    /\ \E ok \in BOOLEAN :
          fn' = SerThen(SerDid(fn, "Flush", "", ok), ok, "ver", "Flush failed")
    /\ UNCHANGED notFn

\* checkVersion(): s.usart.Write([]byte{'v', '\n'})
SerialWriteVer ==
    /\ fn.name = "NewSimpleSerial" /\ fn.pc = "ver"
    /\ \E ok \in BOOLEAN :
          fn' = SerThen(SerDid(fn, "Write", VerCmd, ok), ok, "read",
                        "Failed to write ver command")
    /\ UNCHANGED notFn

\* checkVersion(): s.usart.Read(res), the test of res[0], and the return of
\* NewSimpleSerial.
SerialReadVer ==
    /\ fn.name = "NewSimpleSerial" /\ fn.pc = "read"
    /\ \E ok \in BOOLEAN, res \in [1..VerLen -> ResBytes] :
          LET f == [SerDid(fn, "Read", "4", ok) EXCEPT !.res = res]
          IN  fn' = IF ~ok THEN SerFails(f, "Failed to read ver response")
                    ELSE IF ~VersionOk(res) THEN SerFails(f, "Version 1.0 is not supported")
                    ELSE [f EXCEPT !.pc = "done", !.serial = TRUE]
    /\ UNCHANGED notFn

SerialNext ==
    \/ SerialClear
    \/ SerialFlush
    \/ SerialFlushAgain
    \/ SerialWriteVer
    \/ SerialReadVer

SpecSerial == SerialInit /\ [][SerialNext]_vars

-----------------------------------------------------------------------------
(* Broker: the broker goroutine running Start, and the goroutines that     *)
(* subscribe, unsubscribe, publish, receive and stop it (SpecBroker).      *)

MaxSubs == 2
MaxMsgs == 6
MaxRecvs == 1
\* make(chan interface{}, 5) in Subscribe; make(chan ..., 1) in NewBroker
MsgChCap == 5
ReqChCap == 1

BrokerChans == 1..MaxSubs
BrokerMsgs == 1..MaxMsgs

\* A message in flight, with the channels that were subscribed and not
\* unsubscribed when Publish was handed it.
BrokerMsg(m, to) == [id |-> m, to |-> to]
\* What became of the message the broker handled last: the channels it was
\* sent to and the channels it was dropped for.
HandledNone == [id |-> 0, to |-> {}, got |-> {}, lost |-> {}]

\* NewBroker, followed by go Start(). Channels are numbered in the order
\* Subscribe makes them, messages in the order Publish is handed them.
BrokerNew ==
    [name |-> "Broker", pc |-> "select", stopped |-> FALSE,
     publishCh |-> <<>>, subCh |-> <<>>, unsubCh |-> <<>>,
     subs |-> {}, msg |-> BrokerMsg(0, {}), rest |-> {}, got |-> {}, lost |-> {},
     chans |-> [c \in BrokerChans |-> <<>>],
     made |-> 0, unsubbed |-> {}, published |-> 0, recvs |-> 0,
     handled |-> HandledNone]

\* A variant of the send that makes room by discarding the oldest message.
TrySendEvicts(ch, msg) ==
    IF Len(ch) < MsgChCap THEN Append(ch, msg) ELSE Append(Tail(ch), msg)

\* select { case msgCh <- msg: default: }
TrySend(ch, msg) == IF Len(ch) < MsgChCap THEN Append(ch, msg) ELSE ch

BrokerInit ==
    /\ fn = BrokerNew
    /\ RestIdle

\* Stop: close(b.stopCh)
BrokerStop ==
    /\ fn.name = "Broker" /\ ~fn.stopped
    /\ fn' = [fn EXCEPT !.stopped = TRUE]
    /\ UNCHANGED notFn

\* Subscribe: msgCh := make(chan interface{}, 5); b.subCh <- msgCh; return
BrokerSubscribe ==
    /\ fn.name = "Broker" /\ fn.made < MaxSubs
    /\ Len(fn.subCh) < ReqChCap
    /\ fn' = [fn EXCEPT !.made = @ + 1, !.subCh = Append(@, fn.made + 1)]
    /\ UNCHANGED notFn

\* Unsubscribe(msgCh): b.unsubCh <- msgCh
BrokerUnsubscribe ==
    /\ fn.name = "Broker"
    /\ Len(fn.unsubCh) < ReqChCap
    /\ \E c \in (1..fn.made) \ fn.unsubbed :
          fn' = [fn EXCEPT !.unsubbed = @ \cup {c}, !.unsubCh = Append(@, c)]
    /\ UNCHANGED notFn

\* Publish(msg): b.publishCh <- msg
BrokerPublish ==
    /\ fn.name = "Broker" /\ fn.published < MaxMsgs
    /\ Len(fn.publishCh) < ReqChCap
    /\ fn' = [fn EXCEPT !.published = @ + 1,
                        !.publishCh = Append(@, BrokerMsg(fn.published + 1,
                                                          (1..fn.made) \ fn.unsubbed))]
    /\ UNCHANGED notFn

\* A subscriber takes the next message from its channel: <-dirChanged
BrokerReceive ==
    /\ fn.name = "Broker" /\ fn.recvs < MaxRecvs
    /\ \E c \in 1..fn.made :
          /\ fn.chans[c] # <<>>
          /\ fn' = [fn EXCEPT !.chans[c] = Tail(@), !.recvs = @ + 1]
    /\ UNCHANGED notFn

\* Start, case <-b.stopCh: return
StartStopped ==
    /\ fn.name = "Broker" /\ fn.pc = "select" /\ fn.stopped
    /\ fn' = [fn EXCEPT !.pc = "returned"]
    /\ UNCHANGED notFn

\* Start, case msgCh := <-b.subCh: subs[msgCh] = struct{}{}
StartSub ==
    /\ fn.name = "Broker" /\ fn.pc = "select" /\ fn.subCh # <<>>
    /\ fn' = [fn EXCEPT !.subCh = Tail(@), !.subs = @ \cup {Head(fn.subCh)}]
    /\ UNCHANGED notFn

\* Start, case msgCh := <-b.unsubCh: delete(subs, msgCh)
StartUnsub ==
    /\ fn.name = "Broker" /\ fn.pc = "select" /\ fn.unsubCh # <<>>
    /\ fn' = [fn EXCEPT !.unsubCh = Tail(@), !.subs = @ \ {Head(fn.unsubCh)}]
    /\ UNCHANGED notFn

\* The range loop has ended for message m.
Handled(m, got, lost) == [id |-> m.id, to |-> m.to, got |-> got, lost |-> lost]

\* Start, case msg := <-b.publishCh: the range loop over subs begins.
StartPublish ==
    /\ fn.name = "Broker" /\ fn.pc = "select" /\ fn.publishCh # <<>>
    /\ LET m == Head(fn.publishCh)
       IN  fn' = [fn EXCEPT !.publishCh = Tail(@), !.msg = m,
                            !.rest = fn.subs, !.got = {}, !.lost = {},
                            !.pc = IF fn.subs = {} THEN "select" ELSE "range",
                            !.handled = IF fn.subs = {} THEN Handled(m, {}, {}) ELSE @]
    /\ UNCHANGED notFn

\* Start, one turn of for msgCh := range subs, in the order the map gives.
StartSend ==
    /\ fn.name = "Broker" /\ fn.pc = "range"
    /\ \E c \in fn.rest :
          LET ch == TrySend(fn.chans[c], fn.msg.id)
              last == fn.rest = {c}
              got == IF ch # fn.chans[c] THEN fn.got \cup {c} ELSE fn.got
              lost == IF ch = fn.chans[c] THEN fn.lost \cup {c} ELSE fn.lost
          IN  fn' = [fn EXCEPT !.chans[c] = ch,
                               !.rest = @ \ {c},
                               !.got = got, !.lost = lost,
                               !.pc = IF last THEN "select" ELSE "range",
                               !.handled = IF last THEN Handled(fn.msg, got, lost) ELSE @]
    /\ UNCHANGED notFn

BrokerNext ==
    \/ BrokerStop
    \/ BrokerSubscribe
    \/ BrokerUnsubscribe
    \/ BrokerPublish
    \/ BrokerReceive
    \/ StartStopped
    \/ StartSub
    \/ StartUnsub
    \/ StartPublish
    \/ StartSend

SpecBroker == BrokerInit /\ [][BrokerNext]_vars

-----------------------------------------------------------------------------
(* SpecNewAdc: NewAdc, statement by statement, on a device of one hardware *)
(* type and one sample capacity, each of whose transfers may fail; then    *)
(* the caller's SetTotalSamples on the Adc that NewAdc returned.           *)

addrVersions == 10
addrPresamples == 17
settingsReset == 1
settingsGainHigh == 2
settingsTrigHigh == 4
settingsWaitYes == 32
HwUnknown == 0
HwChipWhispererRev2Lx25 == 3
HwChipWhispererLite == 8
HwChipWhispererCw1200 == 9
VersionLen == 6
\* The samples setResetOn takes off the count the hardware reports.
ResetSamplesOff == 45
DefaultGain == 45
DefaultSamples == 3000

unknownHwVersion == [RegVersion |-> 0, HwType |-> HwUnknown, HwVersion |-> 0]

Version(c, r) ==
    IF c.err # Nil THEN Ret(c, unknownHwVersion)
    ELSE LET c1 == MemRdBuf(c, addrVersions, VersionLen, r)
         IN  IF c1.err # Nil THEN Ret(c1, unknownHwVersion)
             ELSE Ret(c1, [RegVersion |-> r.val[1] % 256,
                           HwType |-> r.val[2] \div 8,
                           HwVersion |-> r.val[2] % 8])

\* ver.HwType == HwChipWhispererLite || ver.HwType == HwChipWhispererCw1200
PreTriggerHw(t) == t = HwChipWhispererLite \/ t = HwChipWhispererCw1200

\* The register values of the model are small: samples * 3 does not wrap.
PreTriggerSamples(c, rp, rv) ==
    IF c.err # Nil THEN Ret(c, 0)
    ELSE LET c1 == MemRd(c, addrPresamples, rp)
         IN  IF c1.err # Nil THEN Ret(c1, 0)
             ELSE LET v == Version(c1, rv)
                  IN  Ret(v.c, IF PreTriggerHw(v.ret.HwType) THEN rp.val * 3 ELSE rp.val)

\* A variant of SetPreTriggerSamples that writes on every hardware type.
SetPreTriggerSamplesAnyHw(c, samples, rv, ok) ==
    IF c.err # Nil THEN c
    ELSE LET v == Version(c, rv)
         IN  IF v.c.err # Nil THEN v.c ELSE MemWr(v.c, addrPresamples, samples, ok)

SetPreTriggerSamples(c, samples, rv, ok) ==
    IF c.err # Nil THEN c
    ELSE LET v == Version(c, rv)
         IN  IF v.c.err # Nil THEN v.c
             ELSE IF ~PreTriggerHw(v.ret.HwType)
                  THEN [v.c EXCEPT !.err = "Not reliable on hardware"]
             ELSE MemWr(v.c, addrPresamples, samples, ok)

\* c.err = c.fpga.Mem.Write(addrSettings, &settings, false, nil)
setSettingsNoCheck(c, v, ok) ==
    IF c.err # Nil THEN c
    ELSE [c EXCEPT !.err = IF ok THEN Nil ELSE "Mem.Write failed",
                   !.log = Append(@, [kind |-> "W", addr |-> addrSettings, ok |-> ok,
                                     val |-> v, validate |-> FALSE])]

setResetOn(c, rs, w1, rn, w2) ==
    LET s == settings(c, rs)
        c1 == setSettingsNoCheck(s.c, Or8(s.ret, settingsReset), w1)
        n == numSamples(c1, rn)
        c2 == [n.c EXCEPT !.hwMaxSamples = SubU32(n.ret, ResetSamplesOff)]
    IN  setNumSamples(c2, c2.hwMaxSamples, w2)

setResetOff(c, rs, w) ==
    LET s == settings(c, rs)
    IN  setSettings(s.c, And8(s.ret, Not8(settingsReset)), w)

GainMode(c, r) ==
    LET s == settings(c, r)
    IN  Ret(s.c, IF And8(s.ret, settingsGainHigh) > 0 THEN "GainModeHigh" ELSE "GainModeLow")

SetGainMode(c, mode, r, ok) ==
    LET s == settings(c, r)
    IN  setSettings(s.c, IF mode = "GainModeHigh" THEN Or8(s.ret, settingsGainHigh)
                         ELSE And8(s.ret, Not8(settingsGainHigh)), ok)

\* settingsTrigHigh | settingsWaitYes, and the bits of each trigger mode
\* (settingsTrigLow and settingsWaitNo are zero).
TrigMask == Or8(settingsTrigHigh, settingsWaitYes)
TrigBits(mode) ==
    CASE mode = "TriggerModeRisingEdge" -> Or8(settingsTrigHigh, settingsWaitYes)
      [] mode = "TriggerModeFallingEdge" -> settingsWaitYes
      [] mode = "TriggerModeHigh" -> settingsTrigHigh
      [] OTHER -> 0

TriggerMode(c, r) ==
    LET s == settings(c, r)
        bits == And8(s.ret, TrigMask)
    IN  Ret(s.c, CASE bits = TrigMask -> "TriggerModeRisingEdge"
                   [] bits = settingsWaitYes -> "TriggerModeFallingEdge"
                   [] bits = settingsTrigHigh -> "TriggerModeHigh"
                   [] OTHER -> "TriggerModeLow")

SetTriggerMode(c, mode, r, ok) ==
    LET s == settings(c, r)
    IN  setSettings(s.c, Or8(And8(s.ret, Not8(TrigMask)), TrigBits(mode)), ok)

\* n -= 1 on a uint16, then the validated write.
setDecimate(c, n, ok) ==
    IF c.err # Nil THEN c ELSE MemWr(c, addrDecimate, (n + Uint16 - 1) % Uint16, ok)

\* The clock and pin setters (SetAdcClockSource, SetFreqCounterSource,
\* SetClkGenInputSource, SetExtClockFreq, SetClkGenOutputFreq,
\* SetTriggerTargetIoPin, SetTargetIo1, SetTargetIo2, SetHs2) and the getters
\* that feed them: each returns at once on a latched error, and otherwise
\* leaves in c.err the outcome of its transfers and of its argument test.
\* None of them touches hwMaxSamples.
GuardedSetter(c, ok) ==
    IF c.err # Nil THEN c ELSE [c EXCEPT !.err = IF ok THEN Nil ELSE "Mem transfer failed"]

\* The device transfers of the default setup succeed up to the f-th.
DefaultSetupOps == 11
defaultSetup(c, rv, rs, f) ==
    LET v == Version(c, rv)
    IN  IF v.ret.HwType # HwChipWhispererLite THEN Ret(v.c, FALSE)
        ELSE LET c1 == SetGain(v.c, DefaultGain, 1 < f)
                 c2 == SetTotalSamples(c1, DefaultSamples, 2 < f)
                 c3 == SetTriggerOffset(c2, 0, 3 < f)
                 c4 == SetTriggerMode(c3, "TriggerModeRisingEdge",
                                      IF 4 < f THEN rs ELSE ReadFails, 5 < f)
             IN  Ret(GuardedSetter(c4, f > DefaultSetupOps), TRUE)

\* The device: the second byte of its version register and the number of
\* samples it reports.
HwTypes == {HwUnknown, HwChipWhispererRev2Lx25, HwChipWhispererLite, HwChipWhispererCw1200}
VersionBytes == {t * 8 + 2 : t \in HwTypes}
CountVals == {10, 45, 3045}
PresampleVals == {0, 2}
CallerSamples == {0, 11, 3000, 3046}
VersionBuf(b) == [k \in 1..VersionLen |-> IF k = 2 THEN b ELSE 0]

NewAdcStart(b, n) ==
    [name |-> "NewAdc", pc |-> "setResetOn", verByte |-> b, count |-> n,
     err |-> Nil, hwMaxSamples |-> 0,
     tested |-> FALSE, latched |-> FALSE, setup |-> FALSE,
     ret |-> [adc |-> FALSE, err |-> Nil],
     asked |-> 0, rejected |-> FALSE]

NewAdcInit ==
    /\ fn \in {NewAdcStart(b, n) : b \in VersionBytes, n \in CountVals}
    /\ RestIdle

\* The Adc under construction as the next statement finds it.
NaEnter == [err |-> fn.err, hwMaxSamples |-> fn.hwMaxSamples, log |-> <<>>, calls |-> <<>>]
\* The device's answers to a read of the version and of the sample count.
NaVersions == {ReadFails, ReadOk(VersionBuf(fn.verByte))}
NaCounts == {ReadFails, ReadOk(fn.count)}
NaGoes(to, c) == [fn EXCEPT !.pc = to, !.err = c.err, !.hwMaxSamples = c.hwMaxSamples]

NaSetResetOn ==
    /\ fn.name = "NewAdc" /\ fn.pc = "setResetOn"
    /\ \E rs \in Reads(SettingsVals), w1 \in BOOLEAN, rn \in NaCounts, w2 \in BOOLEAN :
          fn' = NaGoes("setResetOff", setResetOn(NaEnter, rs, w1, rn, w2))
    /\ UNCHANGED notFn

NaSetResetOff ==
    /\ fn.name = "NewAdc" /\ fn.pc = "setResetOff"
    /\ \E rs \in Reads(SettingsVals), w \in BOOLEAN :
          fn' = NaGoes("GainMode", setResetOff(NaEnter, rs, w))
    /\ UNCHANGED notFn

\* c.SetGainMode(c.GainMode())
NaGainMode ==
    /\ fn.name = "NewAdc" /\ fn.pc = "GainMode"
    /\ \E r1 \in Reads(SettingsVals), r2 \in Reads(SettingsVals), w \in BOOLEAN :
          LET g == GainMode(NaEnter, r1)
          IN  fn' = NaGoes("Gain", SetGainMode(g.c, g.ret, r2, w))
    /\ UNCHANGED notFn

\* c.SetGain(c.Gain())
NaGain ==
    /\ fn.name = "NewAdc" /\ fn.pc = "Gain"
    /\ \E r \in Reads(GainArgs), w \in BOOLEAN :
          LET g == Gain(NaEnter, r)
          IN  fn' = NaGoes("TriggerMode", SetGain(g.c, g.ret, w))
    /\ UNCHANGED notFn

\* c.SetTriggerMode(c.TriggerMode())
NaTriggerMode ==
    /\ fn.name = "NewAdc" /\ fn.pc = "TriggerMode"
    /\ \E r1 \in Reads(SettingsVals), r2 \in Reads(SettingsVals), w \in BOOLEAN :
          LET m == TriggerMode(NaEnter, r1)
          IN  fn' = NaGoes("TriggerOffset", SetTriggerMode(m.c, m.ret, r2, w))
    /\ UNCHANGED notFn

\* c.SetTriggerOffset(c.TriggerOffset())
NaTriggerOffset ==
    /\ fn.name = "NewAdc" /\ fn.pc = "TriggerOffset"
    /\ \E r \in Reads(OffsetArgs), w \in BOOLEAN :
          LET o == TriggerOffset(NaEnter, r)
          IN  fn' = NaGoes("PreTriggerSamples", SetTriggerOffset(o.c, o.ret, w))
    /\ UNCHANGED notFn

\* c.SetPreTriggerSamples(c.PreTriggerSamples()).  Noted: whether the setter
\* came to its test of the hardware type, and whether it assigned the error
\* of that test.
NaPreTriggerSamples ==
    /\ fn.name = "NewAdc" /\ fn.pc = "PreTriggerSamples"
    /\ \E rp \in Reads(PresampleVals), rv1 \in NaVersions, rv2 \in NaVersions, w \in BOOLEAN :
          LET p == PreTriggerSamples(NaEnter, rp, rv1)
              c == SetPreTriggerSamples(p.c, p.ret, rv2, w)
              tested == p.c.err = Nil /\ rv2.ok
          IN  fn' = [NaGoes("TotalSamples", c) EXCEPT
                        !.tested = tested,
                        !.latched = tested /\ c.err = "Not reliable on hardware"]
    /\ UNCHANGED notFn

\* c.SetTotalSamples(c.TotalSamples())
NaTotalSamples ==
    /\ fn.name = "NewAdc" /\ fn.pc = "TotalSamples"
    /\ \E r \in {ReadFails, ReadOk(fn.count), ReadOk(fn.hwMaxSamples)}, w \in BOOLEAN :
          LET t == TotalSamples(NaEnter, r)
          IN  fn' = NaGoes("DownsampleFactor", SetTotalSamples(t.c, t.ret, w))
    /\ UNCHANGED notFn

\* c.SetDownsampleFactor(c.DownsampleFactor())
NaDownsampleFactor ==
    /\ fn.name = "NewAdc" /\ fn.pc = "DownsampleFactor"
    /\ \E r \in Reads(DecimateVals), w \in BOOLEAN :
          LET d == decimate(NaEnter, r)
          IN  fn' = NaGoes("AdcClockSource", setDecimate(d.c, d.ret, w))
    /\ UNCHANGED notFn

\* The five clock statements that end refreshParams, in their order.
ClockStatements ==
    << "AdcClockSource", "FreqCounterSource", "ClkGenInputSource", "ExtClockFreq",
       "ClkGenOutputFreq" >>
NaClockParam ==
    /\ fn.name = "NewAdc"
    /\ \E k \in DOMAIN ClockStatements, ok \in BOOLEAN :
          /\ fn.pc = ClockStatements[k]
          /\ fn.pc = "ExtClockFreq" => ok
          /\ fn' = NaGoes(IF k < Len(ClockStatements) THEN ClockStatements[k + 1]
                          ELSE "defaultSetup",
                          GuardedSetter(NaEnter, ok))
    /\ UNCHANGED notFn

NaDefaultSetup ==
    /\ fn.name = "NewAdc" /\ fn.pc = "defaultSetup"
    /\ \E rv \in NaVersions, rs \in Reads(SettingsVals), f \in 1..(DefaultSetupOps + 1) :
          LET d == defaultSetup(NaEnter, rv, rs, f)
          IN  fn' = [NaGoes("return", d.c) EXCEPT !.setup = d.ret]
    /\ UNCHANGED notFn

\* if c.err != nil { return nil, c.err }; return c, nil
NaReturn ==
    /\ fn.name = "NewAdc" /\ fn.pc = "return"
    /\ fn' = [fn EXCEPT !.pc = "returned", !.ret = [adc |-> fn.err = Nil, err |-> fn.err]]
    /\ UNCHANGED notFn

\* The caller sets the number of samples on the Adc it got.
NaSetTotalSamples ==
    /\ fn.name = "NewAdc" /\ fn.pc = "returned" /\ fn.ret.adc
    /\ \E samples \in CallerSamples, w \in BOOLEAN :
          LET c == SetTotalSamples(NaEnter, samples, w)
          IN  fn' = [NaGoes("done", c) EXCEPT
                        !.asked = samples,
                        !.rejected = c.err = "samples outside limit"]
    /\ UNCHANGED notFn

NewAdcNext ==
    \/ NaSetResetOn
    \/ NaSetResetOff
    \/ NaGainMode
    \/ NaGain
    \/ NaTriggerMode
    \/ NaTriggerOffset
    \/ NaPreTriggerSamples
    \/ NaTotalSamples
    \/ NaDownsampleFactor
    \/ NaClockParam
    \/ NaDefaultSetup
    \/ NaReturn
    \/ NaSetTotalSamples

SpecNewAdc == NewAdcInit /\ [][NewAdcNext]_vars

-----------------------------------------------------------------------------
(* Properties of Memory (SpecMem). *)

\* The uint32 stored little-endian at bytes k..k+3 of buf.
LEVal(buf, k) == buf[k] + 256 * buf[k + 1] + 65536 * buf[k + 2] + 16777216 * buf[k + 3]

IsHeader(buf, len, addr) == Len(buf) >= 8 /\ LEVal(buf, 1) = len /\ LEVal(buf, 5) = addr

Transfers(kinds) == {i \in DOMAIN usbLog : usbLog[i].kind \in kinds}

\* The write transfers of a Write went through (the read-back, if any, follows).
WriteWentOut == memRes.dev.hdrOk /\ (req.len < 48 \/ memRes.dev.pay = "ok")
ReadBackArrived == memRes.dev.rd.hdrOk /\ memRes.dev.rd.pay = "ok"

\* C5: framing depends on the payload length alone. Below 48 bytes every
\* transfer of the call is a control transfer with a control request code;
\* from 48 bytes on, every control-OUT carries a bulk request code, there is
\* no control-IN, and a call that succeeds moved its payload over the bulk pipe.
C5_FramingByLength ==
    memRes.done =>
        /\ req.len < 48 =>
              \A i \in DOMAIN usbLog :
                 /\ usbLog[i].kind \in {"ControlOut", "ControlIn"}
                 /\ usbLog[i].req \in {ReqMemReadCtrl, ReqMemWriteCtrl}
        /\ req.len >= 48 =>
              /\ \A i \in DOMAIN usbLog :
                    /\ usbLog[i].kind # "ControlIn"
                    /\ usbLog[i].kind = "ControlOut" =>
                          usbLog[i].req \in {ReqMemReadBulk, ReqMemWriteBulk}
              /\ (memRes.err = Nil /\ req.op = "Read") => Transfers({"BulkIn"}) # {}
              /\ (memRes.err = Nil /\ req.op = "Write") =>
                    \E i \in Transfers({"BulkOut"}) : usbLog[i].buf = req.data

C5_Witness ==
    /\ memRes.done /\ req.op = "Write" /\ req.len = 48 /\ memRes.err = Nil
    /\ req.validate /\ Len(usbLog) = 4

\* C6: a Read sends exactly one control-OUT, first, carrying {length, address};
\* then exactly one payload transfer (control-IN on the read request code below
\* 48 bytes, bulk-IN otherwise); when the control-OUT fails nothing follows and
\* the Read fails.
C6_ReadSequence ==
    (memRes.done /\ req.op = "Read") =>
        /\ Len(usbLog) >= 1
        /\ usbLog[1].kind = "ControlOut"
        /\ IsHeader(usbLog[1].buf, req.len, req.addr) /\ Len(usbLog[1].buf) = 8
        /\ Transfers({"ControlOut"}) = {1}
        /\ memRes.dev.hdrOk =>
              /\ Len(usbLog) = 2
              /\ IF req.len < 48
                 THEN /\ usbLog[2].kind = "ControlIn"
                      /\ usbLog[2].req = usbLog[1].req
                      /\ usbLog[2].req = ReqMemReadCtrl
                 ELSE usbLog[2].kind = "BulkIn"
              /\ usbLog[2].len = req.len
        /\ ~memRes.dev.hdrOk => (Len(usbLog) = 1 /\ memRes.err # Nil)

C6_Witness ==
    /\ memRes.done /\ req.op = "Read" /\ req.len = 47 /\ memRes.err = Nil
    /\ Len(usbLog) = 2 /\ usbLog[2].kind = "ControlIn"

\* C7: a Write with verify=false issues only the write transfers: below 48
\* bytes one control-OUT of header followed by payload; otherwise the header
\* control-OUT and then, if that went through, one bulk-OUT of the payload.
\* No read transaction is issued.
C7_UnverifiedWrite ==
    (memRes.done /\ req.op = "Write" /\ ~req.validate) =>
        /\ Len(usbLog) >= 1
        /\ usbLog[1].kind = "ControlOut"
        /\ IsHeader(usbLog[1].buf, req.len, req.addr)
        /\ IF req.len < 48
           THEN /\ Len(usbLog) = 1
                /\ usbLog[1].req = ReqMemWriteCtrl
                /\ Len(usbLog[1].buf) = 8 + req.len
                /\ SubSeq(usbLog[1].buf, 9, 8 + req.len) = req.data
           ELSE /\ usbLog[1].req = ReqMemWriteBulk
                /\ Len(usbLog[1].buf) = 8
                /\ IF memRes.dev.hdrOk
                   THEN Len(usbLog) = 2 /\ usbLog[2] = BulkOut(req.data)
                   ELSE Len(usbLog) = 1
        /\ \A i \in DOMAIN usbLog :
              /\ usbLog[i].kind \notin {"ControlIn", "BulkIn"}
              /\ usbLog[i].req \notin {ReqMemReadCtrl, ReqMemReadBulk}

C7_Witness ==
    /\ memRes.done /\ req.op = "Write" /\ ~req.validate /\ req.len = 47
    /\ memRes.err = Nil /\ Len(usbLog) = 1

\* C8: a Write with verify=true and no mask reads the same address and length
\* back right after the write transfers, and succeeds exactly when the bytes
\* read back equal the bytes written.
C8_VerifyNoMask ==
    (memRes.done /\ req.op = "Write" /\ req.validate /\ ~req.mask.set /\ WriteWentOut) =>
        LET first == IF req.len < 48 THEN 2 ELSE 3
        IN  /\ Len(usbLog) >= first
            /\ usbLog[first].kind = "ControlOut"
            /\ usbLog[first].req \in {ReqMemReadCtrl, ReqMemReadBulk}
            /\ IsHeader(usbLog[first].buf, Len(req.data), req.addr)
            /\ ReadBackArrived => (memRes.err = Nil <=> memRes.dev.rd.data = req.data)
            /\ ~ReadBackArrived => memRes.err # Nil

C8_Witness ==
    /\ memRes.done /\ req.op = "Write" /\ req.validate /\ ~req.mask.set
    /\ WriteWentOut /\ ReadBackArrived
    /\ \E i \in 1..req.len :
          /\ memRes.dev.rd.data[i] # req.data[i]
          /\ \A j \in (1..req.len) \ {i} : memRes.dev.rd.data[j] = req.data[j]
    /\ memRes.err = "m.doWrite failed: Write verification failed"

\* C9: a verified Write with a mask as long as the data succeeds exactly when
\* written and read-back bytes agree under the mask at every index, and it
\* leaves the caller's buffer as it was.
C9_VerifyMasked ==
    (/\ memRes.done /\ req.op = "Write" /\ req.validate /\ req.mask.set
     /\ Len(req.mask.bytes) = Len(req.data)) =>
        /\ memRes.buf = req.data
        /\ (WriteWentOut /\ ReadBackArrived) =>
              (memRes.err = Nil <=>
                 \A i \in 1..req.len :
                    And8(req.data[i], req.mask.bytes[i])
                       = And8(memRes.dev.rd.data[i], req.mask.bytes[i]))

C9_Witness ==
    /\ memRes.done /\ req.op = "Write" /\ req.validate /\ req.mask.set
    /\ Len(req.mask.bytes) = Len(req.data)
    /\ WriteWentOut /\ ReadBackArrived
    /\ \E i \in 1..req.len :
          /\ req.mask.bytes[i] = 0
          /\ memRes.dev.rd.data[i] # req.data[i]
    /\ memRes.err = Nil

-----------------------------------------------------------------------------
(* Properties of Adc (SpecAdc). *)

\* C1: once the error field is non-nil it stays non-nil, whatever operation
\* is called next and whatever the device answers.
C1_ErrorStaysSet == [][adc.err # Nil => adc'.err # Nil]_vars

\* The value an operation returns when it does nothing.
ZeroValue(op) ==
    CASE op \in {"Gain", "TotalSamples"} -> <<0>>
      [] op = "WaitForTigger" -> <<FALSE>>
      [] OTHER -> <<>>

\* C2: an operation (getter, setter, SetArmOn, SetArmOff, WaitForTigger,
\* TraceData) called with the error field set issues no Memory read or write
\* and returns its zero value.
C2_ShortCircuit ==
    (/\ call.op \in {"Gain", "SetGain", "TotalSamples", "SetTotalSamples",
                     "SetTriggerOffset", "SetArmOn", "SetArmOff",
                     "WaitForTigger", "TraceData"}
     /\ call.errBefore # Nil) =>
        /\ call.log = <<>>
        /\ call.ret = ZeroValue(call.op)

\* Positions in the call's log.
StatusReads == {i \in DOMAIN call.log : call.log[i].kind = "R" /\ call.log[i].addr = addrStatus}
SettingsWrites == {i \in DOMAIN call.log : call.log[i].kind = "W" /\ call.log[i].addr = addrSettings}
TrigNowBit(v) == (v \div 64) % 2 = 1
\* A status read that answered with the armed bit clear and the FIFO bit set.
SawTrigger ==
    \E i \in StatusReads :
        /\ call.log[i].ok
        /\ call.log[i].val % 2 = 0
        /\ (call.log[i].val \div 2) % 2 = 1
\* The forced trigger pulse: a settings write with the trigger-now bit set,
\* directly followed by one with it clear.
Pulses ==
    {i \in SettingsWrites :
        /\ TrigNowBit(call.log[i].val)
        /\ i + 1 \in SettingsWrites
        /\ ~TrigNowBit(call.log[i + 1].val)}
\* The error field was set when the deadline fired.
LatchedAtDeadline ==
    call.errBefore # Nil \/ \E i \in StatusReads : ~call.log[i].ok

\* C10 as stated: WaitForTigger returns false exactly when a status read
\* showed armed clear and FIFO non-empty, then without any forced trigger; it
\* returns true exactly when the deadline came first, then with the pulse
\* issued exactly once.
C10_PulseExactlyOnce ==
    call.op = "WaitForTigger" =>
        /\ call.ret = <<FALSE>> <=> SawTrigger
        /\ call.ret = <<FALSE>> =>
              \A i \in SettingsWrites : ~TrigNowBit(call.log[i].val)
        /\ call.ret = <<TRUE>> => Cardinality(Pulses) = 1

\* C10 as the code has it: on timeout setTriggerNow runs once; it issues
\* nothing when the error field is already set, and otherwise reads the
\* settings register and, if that read succeeds, writes it once with the
\* trigger-now bit set and, if that write succeeds, once with the bit clear.
C10_PulseOnTimeout ==
    call.op = "WaitForTigger" =>
        /\ call.ret = <<FALSE>> <=> SawTrigger
        /\ call.ret = <<FALSE>> =>
              \A i \in SettingsWrites : ~TrigNowBit(call.log[i].val)
        /\ call.ret = <<TRUE>> =>
              LET sets == {i \in SettingsWrites : TrigNowBit(call.log[i].val)}
                  n == (CHOOSE k \in 0..Len(call.log) : k = Cardinality(StatusReads)) + 1
              IN  /\ Cardinality(sets) <= 1
                  /\ Cardinality(Pulses) <= 1
                  /\ LatchedAtDeadline => sets = {}
                  /\ ~LatchedAtDeadline =>
                        /\ Len(call.log) >= n
                        /\ call.log[n].kind = "R" /\ call.log[n].addr = addrSettings
                        /\ call.log[n].ok => sets = {n + 1}
                        /\ (call.log[n].ok /\ call.log[n + 1].ok) => Pulses = {n + 1}

C10_Witness ==
    /\ call.op = "WaitForTigger" /\ call.ret = <<TRUE>> /\ call.errBefore = Nil
    /\ Cardinality(StatusReads) = MaxPolls
    /\ Cardinality(Pulses) = 1
    /\ adc.err = Nil

-----------------------------------------------------------------------------
(* Properties of NewCapture (SpecCapture). *)

\* C3: once an ADC operation has failed in an iteration of the capture loop,
\* no trace is appended any more, and NewCapture returns an error and no
\* Capture.
C3_AbortOnAdcError ==
    iter.failed =>
        /\ Len(capture) = iter.lenAtFail
        /\ result.returned => (result.err # Nil /\ result.capture = <<>>)

Max0(n) == IF n < 0 THEN 0 ELSE n

\* The capture grows by one trace at a time, and only by a non-empty trace of
\* an iteration whose trigger wait did not time out.
GrowsOnlyByGoodTrace ==
    \/ capture' = capture
    \/ /\ Len(capture') = Len(capture) + 1
       /\ ~iter'.timedOut /\ ~iter'.empty
       /\ capture'[Len(capture')].PowerMeasurements # <<>>
\* An iteration that times out or reads no samples leaves the capture alone.
RetryKeepsCapture ==
    (pc \in {"wait", "trace"} /\ (iter'.timedOut \/ iter'.empty)) => capture' = capture

\* C4 as stated: whatever number of iterations time out or read no samples,
\* a successful NewCapture returns exactly numTraces traces; the capture
\* grows by one only in an iteration that did not time out and read samples,
\* and is never longer than numTraces.
C4_ExactlyNumTraces ==
    /\ [](Len(capture) <= numTraces)
    /\ []((result.returned /\ result.err = Nil) => Len(result.capture) = numTraces)
    /\ [][GrowsOnlyByGoodTrace /\ RetryKeepsCapture]_vars

\* C4 as the code has it: the same, with a negative numTraces counting as
\* zero (the loop does not run and the empty capture is returned).
C4_RetryLaw ==
    /\ [](Len(capture) <= Max0(numTraces))
    /\ []((result.returned /\ result.err = Nil) => Len(result.capture) = Max0(numTraces))
    /\ [][GrowsOnlyByGoodTrace /\ RetryKeepsCapture]_vars

C4_Witness ==
    /\ result.returned /\ result.err = Nil
    /\ numTraces = MaxTraces
    /\ Len(result.capture) = numTraces
    /\ iter.n > numTraces

-----------------------------------------------------------------------------
(* More properties of Adc (SpecAdc). *)

CallsOf(name) == {i \in DOMAIN call.calls : call.calls[i].name = name}
\* The settings value with the arm bit cleared.
Disarmed(v) == v - ((v \div 8) % 2) * 8

\* C11: every call of WaitForTigger calls SetArmOff exactly once, as its
\* last step: after every status poll and after the forced trigger, whether
\* the trigger was seen or the wait timed out.  With no error set at that
\* point the disarm reaches the device: the settings register is read and
\* written back with the arm bit cleared, after every other transfer.
C11_DisarmAlwaysFollows ==
    call.op = "WaitForTigger" =>
        /\ Cardinality(CallsOf("SetArmOff")) = 1
        /\ CallsOf("SetArmOff") = {Len(call.calls)}
        /\ \A i \in DOMAIN call.log :
              call.log[i].addr = addrStatus => i <= call.calls[Len(call.calls)].at
        /\ (call.errBefore = Nil /\ \A i \in DOMAIN call.log : call.log[i].ok) =>
              LET at == call.calls[Len(call.calls)].at
              IN  /\ Len(call.log) = at + 2
                  /\ call.log[at + 1].kind = "R" /\ call.log[at + 1].addr = addrSettings
                  /\ call.log[at + 2].kind = "W" /\ call.log[at + 2].addr = addrSettings
                  /\ call.log[at + 2].val = Disarmed(call.log[at + 1].val)

\* A wait that timed out, forced the trigger and then disarmed.
C11_Witness ==
    /\ call.op = "WaitForTigger" /\ call.ret = <<TRUE>> /\ call.errBefore = Nil
    /\ \A i \in DOMAIN call.log : call.log[i].ok
    /\ CallsOf("setTriggerNow") # {}
    /\ CallsOf("status") # {}
    /\ call.log[Len(call.log)].val = 36

-----------------------------------------------------------------------------
(* Properties of Fpga.Program (SpecFpga). *)

FpgaIdx(kind) == {i \in DOMAIN fpga.log : fpga.log[i].kind = kind}
CtrlIdx(val) == {i \in FpgaIdx("ctrl") : fpga.log[i].val = val}
ReadyPolls == {i \in FpgaIdx("status") : fpga.log[i].ok /\ fpga.log[i].val % 2 = 1}
FpgaReturned == fpga.pc = "done"

\* C12: Program polls IsProgrammed at most 5 times and, when no poll has
\* reported the FPGA programmed and no transfer failed, returns the
\* programming-failed error.
C12_AtMostFivePolls ==
    /\ Cardinality(FpgaIdx("status")) <= MaxAttempts
    /\ (/\ Cardinality(FpgaIdx("status")) = MaxAttempts
        /\ ReadyPolls = {}
        /\ \A i \in DOMAIN fpga.log : fpga.log[i].ok) =>
            fpga.pc \in {"exit", "done"}

\* C13: a Program call that has sent the enter-programming request has sent
\* the exit-programming request by the time it returns.
C13_ExitAlwaysSent ==
    (FpgaReturned /\ \E i \in CtrlIdx(ProgramEnter) : fpga.log[i].ok) =>
        CtrlIdx(ProgramExit) # {}

\* After a poll that reported the FPGA programmed there is no further poll
\* and no delay: the next transfer is the exit request, and it is the last.
NothingAfterReadyButExit ==
    \A i \in ReadyPolls :
        /\ \A j \in DOMAIN fpga.log : j > i => (j = i + 1 /\ j \in CtrlIdx(ProgramExit))
        /\ FpgaReturned => Len(fpga.log) = i + 1
FirstPollReady == \E i \in ReadyPolls : \A j \in FpgaIdx("status") : j >= i

\* C14 as stated: no poll and no delay after a poll that reported programmed;
\* when the first poll reports it, there is exactly one poll, then the exit
\* request and a successful return.
C14_ReadyThenSuccess ==
    /\ NothingAfterReadyButExit
    /\ ReadyPolls # {} => Cardinality(ReadyPolls) = 1
    /\ FirstPollReady => Cardinality(FpgaIdx("status")) = 1
    /\ (FpgaReturned /\ ReadyPolls # {}) => fpga.err = Nil

\* C14 as the code has it: the same, and the return is successful exactly
\* when the exit request is accepted; a refused exit request is returned as
\* the error.
C14_ReadyThenExit ==
    /\ NothingAfterReadyButExit
    /\ ReadyPolls # {} => Cardinality(ReadyPolls) = 1
    /\ FirstPollReady => Cardinality(FpgaIdx("status")) = 1
    /\ (FpgaReturned /\ ReadyPolls # {}) =>
          (fpga.err = Nil <=> fpga.log[Len(fpga.log)].ok)

C14_Witness ==
    /\ FpgaReturned /\ FirstPollReady /\ fpga.err = Nil
    /\ fpga.total = MaxChunks
    /\ Len(fpga.log) = 4 + MaxChunks + 2

\* The place of a transfer in the order of Program.
FpgaRank(e) ==
    CASE e.kind = "ctrl" /\ e.val = ProgramEnter -> 1
      [] e.kind = "ctrl" /\ e.val = ProgramArm -> 2
      [] e.kind = "bulk" -> 3
      [] e.kind = "status" -> 4
      [] OTHER -> 5
FpgaOps == {i \in DOMAIN fpga.log : fpga.log[i].kind # "sleep"}

\* C15: Program issues control-OUT 0xA0, then control-OUT 0xA1, then the
\* bitstream over bulk-OUT in order, then the status polls; both control
\* requests are sent once; nothing is written to bulk-OUT unless both were
\* accepted, and no poll happens before the whole bitstream was written.
C15_FixedOrder ==
    /\ \A i, j \in FpgaOps : i < j => FpgaRank(fpga.log[i]) <= FpgaRank(fpga.log[j])
    /\ Cardinality(CtrlIdx(ProgramEnter)) <= 1
    /\ Cardinality(CtrlIdx(ProgramArm)) <= 1
    /\ FpgaIdx("bulk") # {} =>
          /\ \E i \in CtrlIdx(ProgramEnter) : fpga.log[i].ok
          /\ \E i \in CtrlIdx(ProgramArm) : fpga.log[i].ok
    /\ \A i \in FpgaIdx("bulk") :
          fpga.log[i].val = Cardinality({j \in FpgaIdx("bulk") : j <= i})
    /\ FpgaIdx("status") # {} =>
          /\ \E i \in CtrlIdx(ProgramArm) : fpga.log[i].ok
          /\ Cardinality(FpgaIdx("bulk")) = fpga.total
          /\ \A i \in FpgaIdx("bulk") : fpga.log[i].ok

C15_Witness ==
    /\ FpgaReturned /\ fpga.err = Nil
    /\ fpga.total = MaxChunks
    /\ Cardinality(FpgaIdx("bulk")) = MaxChunks
    /\ Cardinality(FpgaIdx("status")) >= 2

-----------------------------------------------------------------------------
(* Properties of the clock generator search (SpecClk). *)

ClkMin(a, b) == IF a < b THEN a ELSE b
\* The largest divider of the documented range.
MaxDivider(inpFreq) ==
    IF inpFreq < 52000000 THEN ClkMin(256, inpFreq \div 500000) ELSE 256
\* |freq - inpFreq*mul/div| of the call in fn, with the integer division of
\* the code.
FnErr(mul, div) == ClkErr(fn.freq, fn.inpFreq, mul, div)

\* C16: the pair returned by calcClkGenMulDiv has the smallest error among
\* all multipliers 2..256 and all dividers 1..maxDivider, both ends included.
C16_MinimalOverRange ==
    fn.name = "calcClkGenMulDiv" =>
        /\ fn.mul \in 2..256
        /\ fn.div \in 1..MaxDivider(fn.inpFreq)
        /\ \A m \in 2..256, d \in 1..MaxDivider(fn.inpFreq) :
              ~BigLess(FnErr(m, d), FnErr(fn.mul, fn.div))

\* The dividers the search visits.
SearchedDivs(inpFreq) == 1..(MaxDivOf(inpFreq) - 1)

\* C17: among the pairs the search visits, calcClkGenMulDiv returns one of
\* minimal error, and of those the first in ascending multiplier, then
\* ascending divider; with nothing to visit it returns (0, 0).
C17_FirstFoundWins ==
    fn.name = "calcClkGenMulDiv" =>
        IF SearchedDivs(fn.inpFreq) = {} THEN fn.mul = 0 /\ fn.div = 0
        ELSE /\ fn.mul \in 2..256
             /\ fn.div \in SearchedDivs(fn.inpFreq)
             /\ LET best == FnErr(fn.mul, fn.div)
                IN  \A m \in 2..256, d \in SearchedDivs(fn.inpFreq) :
                       LET e == FnErr(m, d)
                       IN  /\ ~BigLess(e, best)
                           /\ e = best => (m > fn.mul \/ (m = fn.mul /\ d >= fn.div))

\* A search in which a later pair has the same error as the returned one.
C17_Witness ==
    /\ fn.name = "calcClkGenMulDiv"
    /\ fn.mul = 2 /\ fn.div = 1
    /\ 2 \in SearchedDivs(fn.inpFreq)
    /\ FnErr(4, 2) = FnErr(fn.mul, fn.div)

\* C18: for every target and input frequency the computed setting
\* has its multiplier in 2..256 and its divider in 1..256.
C18_SettingInRange ==
    fn.name \in {"calcClkGenMulDiv", "SetClkGenOutputFreq"} =>
        fn.mul \in 2..256 /\ fn.div \in 1..256

\* What the code guarantees instead: with an input frequency of 1 MHz or
\* more the computed multiplier is in 2..256 and the divider in 1..255; below
\* 1 MHz the search visits nothing and returns (0, 0), which
\* SetClkGenOutputFreq does not apply: setClkGenMul sets the error and nothing
\* is written.  What is written is the computed value minus one, as a byte.
AppliedInRange ==
    fn.name \in {"calcClkGenMulDiv", "SetClkGenOutputFreq"} =>
        /\ fn.inpFreq >= 1000000 => (fn.mul \in 2..256 /\ fn.div \in 1..255)
        /\ fn.inpFreq < 1000000 =>
              /\ fn.mul = 0 /\ fn.div = 0
              /\ fn.mulReg = <<>> /\ fn.divReg = <<>>
              /\ fn.name = "SetClkGenOutputFreq" => fn.err # Nil
        /\ fn.mulReg # <<>> => (fn.mulReg[1] + 1 = fn.mul /\ fn.mul \in 2..256)
        /\ fn.divReg # <<>> => (fn.divReg[1] + 1 = fn.div /\ fn.div \in 1..256)
        /\ (fn.name = "SetClkGenOutputFreq" /\ fn.err = Nil) =>
              (fn.mulReg # <<>> /\ fn.divReg # <<>>)

-----------------------------------------------------------------------------
(* Properties of ProcessTraceData (SpecDecode). *)

\* A call that returned without an error: the buffer was well framed.
Decoded == fn.name = "ProcessTraceData" /\ fn.err = Nil
\* The sample words of the buffer in fn, numbered from 1, and the tag and the
\* three fields of each: bits [0:10), [10:20) and [20:30).
NumWords == Len(fn.data) \div 4 - 1
TagOf(j) == fn.data[4 * j - 2] \div 64
FieldsOf(j) ==
    LET w == WordAt(fn.data, 4 * j - 2)
    IN  <<Measurement(w.w1), Measurement(w.w2), Measurement(w.w3)>>
\* The first word whose tag is not 3; NumWords + 1 when there is none.
FirstTagged ==
    IF \E j \in 1..NumWords : TagOf(j) # 3
    THEN CHOOSE j \in 1..NumWords : TagOf(j) # 3 /\ \A k \in 1..(j - 1) : TagOf(k) = 3
    ELSE NumWords + 1

\* Number of samples word j contributes: none before the first tagged word,
\* 3 - t for that word, three for every word after it.
Contribution(j) ==
    IF j < FirstTagged THEN 0
    ELSE IF j = FirstTagged THEN 3 - TagOf(j)
    ELSE 3

RECURSIVE SumContribution(_)
SumContribution(j) == IF j = 0 THEN 0 ELSE SumContribution(j - 1) + Contribution(j)

\* C19: words with tag 3 before any post-trigger sample contribute nothing,
\* the first word with tag t in 0..2 contributes exactly 3 - t samples, and
\* every later word contributes three whatever its tag.
C19_SamplesPerWord ==
    Decoded => Len(fn.ret) = SumContribution(NumWords)

\* A skipped word, then a first tagged word giving two samples, then a word
\* that has tag 3 again and gives three.
C19_Witness ==
    /\ Decoded /\ NumWords = 3
    /\ TagOf(1) = 3 /\ TagOf(2) = 1 /\ TagOf(3) = 3
    /\ Len(fn.ret) = 5

\* The samples word j gives when every word emits its fields lowest bits
\* first, the first tagged word its last 3 - t of them.
InOrder(j) ==
    IF j < FirstTagged THEN <<>>
    ELSE IF j = FirstTagged THEN SubSeq(FieldsOf(j), TagOf(j) + 1, 3)
    ELSE FieldsOf(j)

RECURSIVE ConcatInOrder(_)
ConcatInOrder(j) == IF j = 0 THEN <<>> ELSE ConcatInOrder(j - 1) \o InOrder(j)

\* C20: within every word the fields appear in the output as bits [0:10),
\* [10:20), [20:30); the first post-trigger word with tag t emits its last
\* 3 - t fields in that same order.
C20_FieldsInOrder ==
    Decoded => fn.ret = ConcatInOrder(NumWords)

\* The buffer in fn is the sync byte followed by k >= 1 whole words.
SyncPlusWords(k) ==
    /\ fn.name = "ProcessTraceData"
    /\ k >= 1 /\ Len(fn.data) = 1 + 4 * k
    /\ fn.data[1] = SyncByte

\* C21: a buffer made of the sync byte and k >= 1 whole 4-byte words is
\* decoded without error; the sync byte and one word with tag 0 give exactly
\* three samples, the sync byte and one word with tag 3 give none.
C21_AcceptsSyncPlusWords ==
    \A k \in 1..(MaxWords + 1) :
        SyncPlusWords(k) =>
            /\ fn.err = Nil
            /\ (k = 1 /\ fn.data[2] \div 64 = 0) => Len(fn.ret) = 3
            /\ (k = 1 /\ fn.data[2] \div 64 = 3) => Len(fn.ret) = 0

-----------------------------------------------------------------------------
(* More properties of NewCapture (SpecCapture). *)

\* The trace read of the iteration received bytes that do not start with the
\* sync byte.
BadSync(it) == it.raw # <<>> /\ it.raw[1] # SyncByte
FramingErrors == {"Unexpected sync byte", "Unexpected data length"}

\* C22: a raw buffer whose first byte is not 0xAC gives no samples and sets
\* the error; the capture run appends no trace for it and, instead of
\* starting another iteration, returns that error.
C22_FramingAborts ==
    [][ /\ (pc = "trace" /\ BadSync(iter')) =>
              /\ adc'.err \in FramingErrors
              /\ trace'.PowerMeasurements = <<>>
              /\ capture' = capture
        /\ (pc = "loop" /\ BadSync(iter)) =>
              /\ adc.err \in FramingErrors
              /\ result' = Fails(adc.err)
              /\ pc' = "done" /\ capture' = capture /\ iter' = iter ]_vars

\* A run that returned the framing error of its last trace read.
C22_Witness ==
    /\ result.returned /\ result.err = "Unexpected sync byte"
    /\ BadSync(iter)
    /\ iter.ops[Len(iter.ops)] = [op |-> "TraceData", ok |-> FALSE]

-----------------------------------------------------------------------------
(* Properties of TraceData (SpecAdc). *)

\* The sample count the call read from the device; 0 when the read did not
\* take place or failed.
SamplesRead ==
    IF \E i \in DOMAIN call.log : call.log[i].addr = addrSamples /\ call.log[i].ok
    THEN call.log[CHOOSE i \in DOMAIN call.log : call.log[i].addr = addrSamples].val
    ELSE 0
\* What the bytes the call read from the data register decode to; nothing
\* when the read did not take place or failed.
DecodedRead ==
    IF \E i \in DOMAIN call.log : call.log[i].addr = addrAdcData /\ call.log[i].ok
    THEN ProcessTraceData([err |-> Nil],
            call.log[CHOOSE i \in DOMAIN call.log : call.log[i].addr = addrAdcData].val).ret
    ELSE <<>>
TraceMin(a, b) == IF a < b THEN a ELSE b

\* C23: the sample list TraceData returns is never longer than the total
\* sample count: it is the decode result cut to that count when longer, and
\* the decode result itself, without padding, when not.
C23_AtMostTotalSamples ==
    call.op = "TraceData" =>
        /\ Len(call.ret) <= SamplesRead
        /\ call.ret = SubSeq(DecodedRead, 1, TraceMin(SamplesRead, Len(DecodedRead)))

\* A decode result of three samples cut to a count of one.
C23_Witness ==
    /\ call.op = "TraceData"
    /\ Len(DecodedRead) = 3 /\ SamplesRead = 1
    /\ call.ret = <<DecodedRead[1]>>

\* The calls of one iteration of the capture loop, in their order.
IterOrder == <<"SetArmOn", "WritePlaintext", "WaitForTigger", "Response", "TraceData">>

\* C24: an iteration of the capture loop calls arm, send plaintext, wait for
\* trigger, read ciphertext, read trace in this order; the plaintext is sent
\* after the arm call, the ciphertext is read only after a wait that did not
\* time out, and the trace only after the ciphertext was read.
C24_IterationOrder ==
    /\ Len(iter.ops) <= Len(IterOrder)
    /\ \A i \in DOMAIN iter.ops : iter.ops[i].op = IterOrder[i]
    /\ Len(iter.ops) >= 3 => iter.ops[2].ok
    /\ Len(iter.ops) >= 4 => (iter.ops[3].ok /\ ~iter.timedOut)
    /\ Len(iter.ops) >= 5 => iter.ops[4].ok

\* An iteration that went through all five calls and stored its trace.
C24_Witness ==
    /\ Len(iter.ops) = 5
    /\ \A i \in DOMAIN iter.ops : iter.ops[i].ok
    /\ capture # <<>> /\ capture[Len(capture)].Ct = iter.n

-----------------------------------------------------------------------------
(* Properties of Usart.Read (SpecUsartRead). *)

\* C25: when the deadline elapses before len(p) bytes have been received,
\* Read returns a non-nil error.
C25_TimeoutIsError ==
    (fn.name = "Usart.Read" /\ fn.pc = "done" /\ fn.timedOut /\ fn.n < fn.len) =>
        fn.err # Nil

\* The timer firing ends the call without a device transfer.
TimerForcesNothing ==
    [][(fn'.timedOut /\ ~fn.timedOut) => fn'.log = fn.log]_vars

-----------------------------------------------------------------------------
(* Properties of UsbDevice.Close (SpecUsbClose). *)

ReleaseOrder == <<"intf_done", "intf.Close", "dev.Close", "ctx.Close">>
IsRelease(e) == \E i \in DOMAIN ReleaseOrder : ReleaseOrder[i] = e
\* The resources released so far, in order.
Releases == SelectSeq(fn.log, IsRelease)
RankOf(e) == CHOOSE i \in DOMAIN ReleaseOrder : ReleaseOrder[i] = e

\* C26: over any number of Close calls each of interface-done, interface,
\* device handle and context is released at most once and in that order;
\* every call after the first changes nothing and returns nil.
C26_CloseIdempotent ==
    /\ [](fn.name = "UsbDevice" =>
            /\ \A i, j \in DOMAIN Releases : i < j => RankOf(Releases[i]) < RankOf(Releases[j])
            /\ fn.closes >= 1 =>
                  (fn.ret = Nil /\ ~fn.intf_done /\ ~fn.intf /\ ~fn.dev /\ ~fn.ctx))
    /\ [][(fn.name = "UsbDevice" /\ fn.closes >= 1) =>
             fn' = [fn EXCEPT !.closes = @ + 1]]_vars

\* A fully opened device closed more than once.
C26_Witness ==
    /\ fn.name = "UsbDevice" /\ fn.closes >= 2
    /\ Releases = ReleaseOrder

-----------------------------------------------------------------------------
(* Properties of the Adc setters (SpecAdc). *)

\* The call issued exactly one Memory operation: a validated write of v to
\* the register at addr.
OneValidatedWrite(addr, v) ==
    /\ Len(call.log) = 1
    /\ call.log[1].kind = "W" /\ call.log[1].addr = addr
    /\ call.log[1].val = v /\ call.log[1].validate
    /\ (adc.err = Nil) = call.log[1].ok

\* C27: SetGain above 78 and SetTotalSamples above the hardware maximum set
\* an invalid-parameter error and write nothing; a value inside the range is
\* written to its register, with validation, by a call made with no error
\* set.
C27_RangeChecked ==
    /\ (call.op = "SetGain" /\ call.args[1] > 78) =>
          /\ call.log = <<>> /\ adc.err # Nil
          /\ call.errBefore = Nil => adc.err = "Invalid gain"
    /\ (call.op = "SetGain" /\ call.args[1] <= 78 /\ call.errBefore = Nil) =>
          OneValidatedWrite(addrGain, call.args[1])
    /\ (call.op = "SetTotalSamples" /\ call.args[1] > adc.hwMaxSamples) =>
          call.log = <<>> /\ adc.err = "samples outside limit"
    /\ (call.op = "SetTotalSamples" /\ call.args[1] <= adc.hwMaxSamples
           /\ call.errBefore = Nil) =>
          OneValidatedWrite(addrSamples, call.args[1])

\* The largest gain, written.
C27_Witness ==
    /\ call.op = "SetGain" /\ call.args = <<78>> /\ call.errBefore = Nil
    /\ OneValidatedWrite(addrGain, 78) /\ adc.err = Nil

-----------------------------------------------------------------------------
(* Properties of SaveIo and LoadCaptureIo (SpecSaveLoad). *)

\* Equality as reflect.DeepEqual has it: a nil slice equals only a nil slice,
\* floats are compared with ==, so that NaN equals nothing and the two zeros
\* are equal.
FloatEq(a, b) ==
    /\ a.class # "NaN" /\ b.class # "NaN"
    /\ a.class = b.class
    /\ \/ a.class = "num" /\ a.k = b.k /\ (a.neg = b.neg \/ a.k = 0)
       \/ a.class = "Inf" /\ a.neg = b.neg
FloatsEq(a, b) ==
    /\ a.nil = b.nil /\ Len(a.e) = Len(b.e)
    /\ \A i \in DOMAIN a.e : FloatEq(a.e[i], b.e[i])
TraceEq(a, b) ==
    /\ a.Key = b.Key /\ a.Pt = b.Pt /\ a.Ct = b.Ct
    /\ FloatsEq(a.PowerMeasurements, b.PowerMeasurements)
CaptureEq(a, b) ==
    /\ a.nil = b.nil /\ Len(a.e) = Len(b.e)
    /\ \A i \in DOMAIN a.e : TraceEq(a.e[i], b.e[i])

\* C28: for every Capture, LoadCaptureIo applied to the output of SaveIo
\* returns a Capture equal to it field for field.
C28_RoundTrip ==
    fn.name = "LoadCaptureIo" =>
        /\ fn.saveErr = Nil /\ fn.loadErr = Nil
        /\ CaptureEq(fn.loaded, fn.c)

\* C28 for what can be written: a Capture whose measurements are all finite
\* is saved without error and loaded back equal, field for field and bit for
\* bit; a Capture holding a NaN or an infinity is not saved: SaveIo returns
\* the encoder's error, writes nothing, and loading its output fails.
C28_RoundTripFinite ==
    /\ (fn.name \in {"SaveIo", "LoadCaptureIo"}) =>
          (fn.saveErr = Nil) = Encodable(fn.c)
    /\ (fn.name = "LoadCaptureIo" /\ Encodable(fn.c)) =>
          /\ fn.loadErr = Nil
          /\ fn.loaded = fn.c
          /\ CaptureEq(fn.loaded, fn.c)
    /\ (fn.name = "LoadCaptureIo" /\ ~Encodable(fn.c)) =>
          fn.out = <<>> /\ fn.loadErr # Nil

\* A loaded trace with an empty key, a nil plaintext and several
\* measurements, among them one with ten digits after the point.
C28_Witness ==
    /\ fn.name = "LoadCaptureIo" /\ fn.loadErr = Nil
    /\ Len(fn.loaded.e) = 1
    /\ fn.loaded.e[1].Key = Slice(<<>>) /\ fn.loaded.e[1].Pt = NilSlice
    /\ Len(fn.loaded.e[1].PowerMeasurements.e) = 3
    /\ fn.loaded.e[1].PowerMeasurements.e[1] = Num(FALSE, 1)
    /\ Len(fn.out[1].gzip.v[1].v.pm.v[1].v) = 12

-----------------------------------------------------------------------------
(* Properties of ProgramDevice (SpecProgram). *)

ProgramOrder ==
    <<"Erase", "NewMemoryWriter", "Write", "NewMemoryReader", "Read">>
ProgramReturned == fn.name = "ProgramDevice" /\ fn.pc = "done"

\* C29: ProgramDevice erases, writes, reads back and compares in this order
\* and stops at the first step that fails; after a failed Erase no writer and
\* no reader is created and the error returned carries the erase failure; nil
\* is returned only when every step succeeded and the bytes read back equal
\* the firmware data.
C29_StopsAtFirstFailure ==
    fn.name = "ProgramDevice" =>
        /\ Len(fn.log) <= Len(ProgramOrder)
        /\ \A i \in DOMAIN fn.log :
              /\ fn.log[i].op = ProgramOrder[i]
              /\ i < Len(fn.log) => fn.log[i].ok
        /\ (fn.log # <<>> /\ ~fn.log[1].ok) =>
              /\ fn.log = <<ProgCall("Erase", FALSE)>>
              /\ ProgramReturned /\ fn.err = <<"Failed to erase chip", "Erase">>
        /\ (ProgramReturned /\ fn.err = <<>>) =>
              /\ Len(fn.log) = Len(ProgramOrder)
              /\ \A i \in DOMAIN fn.log : fn.log[i].ok
              /\ fn.mem = fn.data
        /\ (fn.log # <<>> /\ ~fn.log[Len(fn.log)].ok) =>
              (ProgramReturned /\ fn.err # <<>> /\ fn.err[2] = fn.log[Len(fn.log)].op)

\* A firmware of MaxFwLen bytes programmed and verified.
C29_Witness ==
    /\ ProgramReturned /\ fn.err = <<>>
    /\ Len(fn.data) >= 2 /\ fn.mem = fn.data /\ fn.flash = fn.data
    /\ Len(fn.log) = 5

-----------------------------------------------------------------------------
(* Properties of NewSimpleSerial (SpecSerial). *)

\* The Usart calls of NewSimpleSerial, in order.
SerialOrder ==
    <<[op |-> "Write", arg |-> ClearCmd], [op |-> "Flush", arg |-> ""],
      [op |-> "Flush", arg |-> ""], [op |-> "Write", arg |-> VerCmd],
      [op |-> "Read", arg |-> "4"]>>
SerialReturned == fn.name = "NewSimpleSerial" /\ fn.pc = "done"

\* C30: NewSimpleSerial writes the 'x' flush command, flushes the read
\* buffer, flushes it again, writes "v\n" and reads four bytes once, in this
\* order; when the first byte read is not 'z' it returns the error "Version
\* 1.0 is not supported" and no SimpleSerial.
C30_VersionChecked ==
    fn.name = "NewSimpleSerial" =>
        /\ Len(fn.log) <= Len(SerialOrder)
        /\ \A i \in DOMAIN fn.log :
              /\ fn.log[i].op = SerialOrder[i].op /\ fn.log[i].arg = SerialOrder[i].arg
              /\ i < Len(fn.log) => fn.log[i].ok
        /\ (SerialReturned /\ Len(fn.log) = 5 /\ fn.log[5].ok /\ fn.res[1] # AckByte) =>
              (fn.err = "Version 1.0 is not supported" /\ ~fn.serial)
        /\ (SerialReturned /\ fn.serial) =>
              (fn.err = Nil /\ Len(fn.log) = 5 /\ fn.log[5].ok /\ fn.res[1] = AckByte)
        /\ (SerialReturned /\ ~fn.serial) => fn.err # Nil

\* The version read succeeded and left four zero bytes.
C30_Witness ==
    /\ SerialReturned /\ Len(fn.log) = 5 /\ fn.log[5].ok
    /\ fn.res = [i \in 1..VerLen |-> 0]
    /\ fn.err = "Version 1.0 is not supported"

-----------------------------------------------------------------------------
(* Properties of the responses NewCapture reads (SpecCapture). A response  *)
(* line in rxq is named by the plaintext it answers, and a plaintext by    *)
(* the iteration that generated it.                                        *)

\* C31: in every trace of the Capture being built and of the Capture
\* returned, Ct is the response to that trace's own Pt: a response left over
\* from a timed-out iteration is never taken as a later trace's ciphertext.
C31_CtAnswersPt ==
    /\ \A i \in DOMAIN capture : capture[i].Ct = capture[i].Pt
    /\ \A i \in DOMAIN result.capture : result.capture[i].Ct = result.capture[i].Pt

-----------------------------------------------------------------------------
(* Termination of NewCapture (SpecCaptureLive). *)

CapReturned == pc = "done" /\ result.returned

\* Every step of NewCapture moves pc (with CapEnabling, what makes the
\* fairness of SpecCaptureLive the fairness of the steps themselves).
CapPcMoves == [][pc' # pc]_vars

\* C32: NewCapture eventually returns; when it returns without an error the
\* Capture holds numTraces traces, and with numTraces <= 0 it returns the
\* empty Capture without having run an iteration.
C32_Terminates ==
    <>(/\ CapReturned
       /\ result.err = Nil =>
              Len(result.capture) = (IF numTraces < 0 THEN 0 ELSE numTraces)
       /\ (result.err = Nil /\ numTraces <= 0) =>
              (iter.n = 0 /\ iter.ops = <<>> /\ result.capture = <<>>))

\* A Capture of numTraces traces returned after more iterations than traces,
\* the last of them beyond MaxIters.
C32_Witness ==
    /\ CapReturned /\ result.err = Nil
    /\ numTraces = MaxTraces /\ Len(result.capture) = numTraces
    /\ iter.n >= MaxIters

-----------------------------------------------------------------------------
(* Properties of the length TraceData reads (SpecAdc). *)

\* ceil(samples/3)*4 + 256 in unsigned 32-bit arithmetic, as two limbs.
AddU32(b, k) == [h |-> (b.h + (b.l + k) \div Limb) % Limb, l |-> (b.l + k) % Limb]
BoundedWant(samples) == AddU32(Mul4U32((samples + 2) \div 3), 256)
\* min(pending, ceil(samples/3)*4 + 256)
BoundedRead(samples, pending) ==
    LET want == BoundedWant(samples)
    IN  IF BigLess(Big(pending), want) THEN pending ELSE want.h * Limb + want.l
\* The reads of the ADC data register TraceData issued.
DataReads == {i \in DOMAIN call.log : call.log[i].addr = addrAdcData}

\* C33: TraceData reads nothing from the ADC data register when the pending
\* count is zero (or was not read); otherwise it issues one read of the data
\* register, of exactly min(pending, ceil(samples/3)*4 + 256) bytes.
C33_BoundedReadLength ==
    call.op = "TraceData" =>
        LET p == call.log[1]
        IN  /\ p.addr = addrBytestorx
            /\ (~p.ok \/ p.val = 0) => (DataReads = {} /\ call.ret = <<>>)
            /\ (p.ok /\ p.val # 0) =>
                  /\ Cardinality(DataReads) = 1
                  /\ \A i \in DataReads : call.log[i].len = BoundedRead(SamplesRead, p.val)

\* The same for sample counts whose rounded-up fourfold fits in 32 bits.
ReadLengthNoWrap ==
    (call.op = "TraceData" /\ SamplesRead < Limb) =>
        LET p == call.log[1]
        IN  /\ p.addr = addrBytestorx
            /\ (~p.ok \/ p.val = 0) => (DataReads = {} /\ call.ret = <<>>)
            /\ (p.ok /\ p.val # 0) =>
                  /\ Cardinality(DataReads) = 1
                  /\ \A i \in DataReads : call.log[i].len = BoundedRead(SamplesRead, p.val)

-----------------------------------------------------------------------------
(* Properties of OpenCwLiteUsbDevice (SpecUsbOpen). *)

\* OpenCwLiteUsbDevice has returned an error.
UsbOpenFailed == fn.name = "OpenCwLiteUsbDevice" /\ fn.pc = "done" /\ fn.err # Nil

\* C34: when OpenCwLiteUsbDevice returns an error, whichever step failed,
\* no context, device handle or interface is left open.
C34_FailedOpenReleasesAll ==
    UsbOpenFailed => (~fn.ctx /\ ~fn.dev /\ ~fn.intf /\ ~fn.intf_done)

\* The failures on which Close is called leave nothing open.
ClosedOnBusFailure ==
    (UsbOpenFailed /\ fn.closes > 0) => (~fn.ctx /\ ~fn.dev /\ ~fn.intf /\ ~fn.intf_done)

-----------------------------------------------------------------------------
(* Properties of the Broker (SpecBroker). *)

\* The step is a turn of the range loop that offers the message to c.
SendsTo(c) ==
    /\ fn.name = "Broker" /\ fn.pc = "range" /\ c \in fn.rest
    /\ fn'.rest = fn.rest \ {c}

\* C35: the range loop never waits for a subscriber. A turn of it is always
\* possible; offered to a channel that is full the message is dropped, that
\* channel and every other one staying as they are; offered to a channel
\* with room it is appended; and when the last subscriber has been served
\* the loop is back at its select.
C35_NeverBlocksOnSubscriber ==
    /\ []((fn.name = "Broker" /\ fn.pc = "range") => (fn.rest # {} /\ ENABLED StartSend))
    /\ [][\A c \in BrokerChans : SendsTo(c) =>
             /\ \A d \in BrokerChans \ {c} : fn'.chans[d] = fn.chans[d]
             /\ Len(fn.chans[c]) >= MsgChCap => fn'.chans[c] = fn.chans[c]
             /\ Len(fn.chans[c]) < MsgChCap => fn'.chans[c] = Append(fn.chans[c], fn.msg.id)
             /\ fn'.subs = fn.subs
             /\ fn'.pc = (IF fn.rest = {c} THEN "select" ELSE "range")]_vars

\* A message dropped for one subscriber and delivered to the other.
C35_Witness ==
    /\ fn.name = "Broker" /\ fn.pc = "select"
    /\ fn.handled.lost # {} /\ fn.handled.got # {}

\* C36: a message published after Subscribe returned a channel and before
\* Unsubscribe was called with it has, once the broker has handled it, been
\* sent to that channel or dropped because the channel was full.
C36_SubscribedReceives ==
    (fn.name = "Broker" /\ fn.handled.id # 0) =>
        \A c \in fn.handled.to \ fn.unsubbed :
            c \in fn.handled.got \/ c \in fn.handled.lost

-----------------------------------------------------------------------------
(* The divisor of AdcSampleRate.                                           *)

\* C39: whenever AdcSampleRate evaluates AdcFreq() / decimation, the
\* decimation factor is at least 1: it never divides by zero, whether the
\* read of the decimation register failed or the register holds 0xFFFF.
C39_DivisorAtLeastOne ==
    (call.op = "AdcSampleRate" /\ call.ret.divided) =>
        (call.ret.decimation >= 1 /\ ~call.ret.panics)

\* The division was evaluated by a factor the register gave.
SampleRateDivided ==
    /\ call.op = "AdcSampleRate"
    /\ call.ret.divided
    /\ call.ret.decimation = 2
    /\ call.ret.rate = 48

-----------------------------------------------------------------------------
(* Properties of NewAdc (SpecNewAdc). *)

NewAdcReturned == fn.name = "NewAdc" /\ fn.pc \in {"returned", "done"}
\* The hardware type the device's version register holds.
DeviceHwType == fn.verByte \div 8

\* C37: NewAdc returns an Adc only when the hardware type is
\* ChipWhisperer-Lite or CW1200.  On any other type it returns nil and an
\* error without running the default setup, and when SetPreTriggerSamples
\* came to its test of the hardware type, that test's error is the one
\* latched and returned.
C37_OnlySupportedHardware ==
    NewAdcReturned =>
        /\ (fn.ret.adc \/ fn.ret.err = Nil) => PreTriggerHw(DeviceHwType)
        /\ ~PreTriggerHw(DeviceHwType) =>
              /\ ~fn.ret.adc
              /\ fn.ret.err # Nil
              /\ ~fn.setup
              /\ fn.tested => (fn.latched /\ fn.ret.err = "Not reliable on hardware")

\* NewAdc on another hardware type returned the error of the test.
C37_Witness ==
    /\ NewAdcReturned
    /\ ~PreTriggerHw(DeviceHwType)
    /\ fn.latched
    /\ ~fn.setup
    /\ fn.ret = [adc |-> FALSE, err |-> "Not reliable on hardware"]

\* NewAdc returned an Adc on a ChipWhisperer-Lite after its default setup.
NewAdcSucceeds ==
    /\ NewAdcReturned
    /\ fn.ret.adc
    /\ fn.setup
    /\ DeviceHwType = HwChipWhispererLite

\* C38: once setResetOn has run, the sample limit is never above the count
\* the hardware reports, and SetTotalSamples rejects every value above that
\* count, whatever the count is and whether or not it could be read.
C38_LimitWithinCapacity ==
    (fn.name = "NewAdc" /\ fn.pc # "setResetOn") =>
        /\ ~U32Greater(fn.hwMaxSamples, fn.count)
        /\ (fn.pc = "done" /\ U32Greater(fn.asked, fn.count)) => fn.rejected

\* With a count of at least 45 that was read, the limit is the count less 45.
LimitBelowCount ==
    /\ fn.name = "NewAdc" /\ fn.pc = "done"
    /\ fn.hwMaxSamples = fn.count - ResetSamplesOff
    /\ U32Greater(fn.asked, fn.count)
    /\ fn.rejected

=============================================================================
